---- MODULE Spec2Model ----
(***************************************************************************)
(* SSRF defence engine of url-fetcher: the address classifier              *)
(* (normalize-ip.utils), the policy engine (SsrfPolicyService), and the    *)
(* secure transport (createSecurityAxiosAdapter).                          *)
(*                                                                         *)
(* Strings are sequences of one-character strings.  JavaScript numbers     *)
(* that may exceed 31 bits are kept as two 16-bit halves [hi, lo] plus an  *)
(* "over" flag (value >= 2^32), so that the 32-bit operators (>>>, &, <<)  *)
(* are computed with their width.                                          *)
(***************************************************************************)
EXTENDS Integers, Sequences, FiniteSets, TLC

(***************************************************************************)
(* Characters and strings                                                  *)
(***************************************************************************)
DecDigits == <<"0", "1", "2", "3", "4", "5", "6", "7", "8", "9">>
HexDigits == <<"0", "1", "2", "3", "4", "5", "6", "7", "8", "9",
               "a", "b", "c", "d", "e", "f">>

IsDigit(c) == c \in {"0", "1", "2", "3", "4", "5", "6", "7", "8", "9"}

UpperLetters == <<"A", "B", "C", "D", "E", "F", "G", "H", "I", "J", "K", "L", "M",
                  "N", "O", "P", "Q", "R", "S", "T", "U", "V", "W", "X", "Y", "Z">>
LowerLetters == <<"a", "b", "c", "d", "e", "f", "g", "h", "i", "j", "k", "l", "m",
                  "n", "o", "p", "q", "r", "s", "t", "u", "v", "w", "x", "y", "z">>

ToLowerChar(c) ==
  IF \E i \in 1..26 : UpperLetters[i] = c
  THEN LowerLetters[CHOOSE i \in 1..26 : UpperLetters[i] = c]
  ELSE c

\* String.prototype.toLocaleLowerCase / ASCII lower-casing of a host
ToLower(s) == [i \in 1..Len(s) |-> ToLowerChar(s[i])]

\* value of a character as a digit of the radix, -1 when it is none
DigitIn(c, radix) ==
  LET l == ToLowerChar(c)
      v == IF \E i \in 1..16 : HexDigits[i] = l
           THEN (CHOOSE i \in 1..16 : HexDigits[i] = l) - 1
           ELSE -1
  IN IF v >= 0 /\ v < radix THEN v ELSE -1

AllDigits(s) == \A i \in 1..Len(s) : IsDigit(s[i])

StartsWith(s, p) == Len(s) >= Len(p) /\ SubSeq(s, 1, Len(p)) = p

Includes(s, c) == \E i \in 1..Len(s) : s[i] = c

\* index of the first occurrence of c in s, 0 when absent
IndexOfChar(s, c) ==
  IF Includes(s, c) THEN CHOOSE i \in 1..Len(s) : s[i] = c /\ \A j \in 1..(i - 1) : s[j] # c
  ELSE 0

\* String.prototype.split(sep) for a one-character separator
RECURSIVE Split(_, _)
Split(s, sep) ==
  LET i == IndexOfChar(s, sep)
  IN IF i = 0 THEN <<s>>
     ELSE <<SubSeq(s, 1, i - 1)>> \o Split(SubSeq(s, i + 1, Len(s)), sep)

\* Array.prototype.join(sep) of a sequence of strings
RECURSIVE Join(_, _)
Join(parts, sep) ==
  IF Len(parts) = 0 THEN <<>>
  ELSE IF Len(parts) = 1 THEN parts[1]
  ELSE parts[1] \o <<sep>> \o Join(Tail(parts), sep)

\* decimal text of a natural number (Number.prototype.toString)
RECURSIVE NatToStr(_)
NatToStr(n) ==
  IF n < 10 THEN <<DecDigits[n + 1]>>
  ELSE NatToStr(n \div 10) \o <<DecDigits[(n % 10) + 1]>>

(***************************************************************************)
(* Wide numbers: [hi, lo] are the two 16-bit halves of value mod 2^32,     *)
(* over says that the value is 2^32 or more, nan that it is NaN.           *)
(***************************************************************************)
Wide(h, l, o) == [hi |-> h, lo |-> l, over |-> o, nan |-> FALSE]
WideNaN == [hi |-> 0, lo |-> 0, over |-> FALSE, nan |-> TRUE]
WideZero == Wide(0, 0, FALSE)

\* n * radix + d
WideMulAdd(n, radix, d) ==
  LET l == n.lo * radix + d
      h == n.hi * radix + (l \div 65536)
  IN Wide(h % 65536, l % 65536, n.over \/ h >= 65536)

\* the digits of s read in the radix, most significant first
RECURSIVE WideOfDigits(_, _, _)
WideOfDigits(s, radix, acc) ==
  IF Len(s) = 0 THEN acc
  ELSE WideOfDigits(Tail(s), radix, WideMulAdd(acc, radix, DigitIn(Head(s), radix)))

\* length of the longest prefix of s made of digits of the radix
RECURSIVE DigitPrefixLen(_, _)
DigitPrefixLen(s, radix) ==
  IF Len(s) = 0 \/ DigitIn(Head(s), radix) < 0 THEN 0
  ELSE 1 + DigitPrefixLen(Tail(s), radix)

\* parseInt(s, radix): the longest digit prefix, after an optional 0x for
\* radix 16; NaN when there is no digit
ParseInt(s, radix) ==
  LET body == IF radix = 16 /\ Len(s) >= 2 /\ s[1] = "0" /\ ToLowerChar(s[2]) = "x"
              THEN SubSeq(s, 3, Len(s)) ELSE s
      k == DigitPrefixLen(body, radix)
  IN IF k = 0 THEN WideNaN ELSE WideOfDigits(SubSeq(body, 1, k), radix, WideZero)

\* (num >>> shift) & 255 for shift in {24, 16, 8} and num & 255 for shift 0:
\* ToUint32/ToInt32 keep value mod 2^32, NaN counts as 0
ByteOf(n, shift) ==
  IF n.nan THEN 0
  ELSE CASE shift = 24 -> n.hi \div 256
         [] shift = 16 -> n.hi % 256
         [] shift = 8 -> n.lo \div 256
         [] OTHER -> n.lo % 256

\* [(num >>> 24) & 255, (num >>> 16) & 255, (num >>> 8) & 255, num & 255].join('.')
DottedOfWide(n) ==
  Join(<<NatToStr(ByteOf(n, 24)), NatToStr(ByteOf(n, 16)),
         NatToStr(ByteOf(n, 8)), NatToStr(ByteOf(n, 0))>>, ".")

(***************************************************************************)
(* Address classifier: src/common/normalize-ip.utils                       *)
(***************************************************************************)
\* the value null
Null == <<"null">>

\* a small natural read from decimal digits, saturating at 256
RECURSIVE SmallOfDigits(_, _, _)
SmallOfDigits(s, radix, acc) ==
  IF Len(s) = 0 THEN acc
  ELSE LET v == acc * radix + DigitIn(Head(s), radix)
       IN SmallOfDigits(Tail(s), radix, IF v > 256 THEN 256 ELSE v)

RECURSIVE TimesTenPow(_, _)
TimesTenPow(v, e) ==
  IF e = 0 \/ v = 0 \/ v >= 256 THEN (IF v > 256 THEN 256 ELSE v)
  ELSE TimesTenPow(IF v * 10 > 256 THEN 256 ELSE v * 10, e - 1)

\* Number(p) for one dotted segment: -1 for NaN or a negative number,
\* otherwise the value, saturating at 256.  The empty string is 0; the
\* accepted forms are decimal digits, 0x/0X hexadecimal, 0b/0B binary,
\* digits with a non-negative exponent, and "-" followed by zeros.
NumberOfSegment(p) ==
  LET n == Len(p)
      ePos == IF Includes(ToLower(p), "e") THEN IndexOfChar(ToLower(p), "e") ELSE 0
  IN IF n = 0 THEN 0
     ELSE IF AllDigits(p) THEN SmallOfDigits(p, 10, 0)
     ELSE IF n >= 3 /\ p[1] = "0" /\ ToLowerChar(p[2]) = "x"
             /\ DigitPrefixLen(SubSeq(p, 3, n), 16) = n - 2
          THEN SmallOfDigits(SubSeq(p, 3, n), 16, 0)
     ELSE IF n >= 3 /\ p[1] = "0" /\ ToLowerChar(p[2]) = "b"
             /\ DigitPrefixLen(SubSeq(p, 3, n), 2) = n - 2
          THEN SmallOfDigits(SubSeq(p, 3, n), 2, 0)
     ELSE IF ePos > 1 /\ ePos < n /\ AllDigits(SubSeq(p, 1, ePos - 1))
             /\ AllDigits(SubSeq(p, ePos + 1, n))
          THEN TimesTenPow(SmallOfDigits(SubSeq(p, 1, ePos - 1), 10, 0),
                           SmallOfDigits(SubSeq(p, ePos + 1, n), 10, 0))
     ELSE IF n >= 2 /\ p[1] = "-" /\ \A i \in 2..n : p[i] = "0" THEN 0
     ELSE -1

\* ip.split('.').map(Number)
NumbersOf(parts) == [i \in 1..Len(parts) |-> NumberOfSegment(parts[i])]

\* parts.length === 4 && parts.every(p => p >= 0 && p <= 255) ? parts.join('.') : null
DottedOfParts(parts) ==
  IF Len(parts) = 4 /\ \A i \in 1..4 : parts[i] >= 0 /\ parts[i] <= 255
  THEN Join([i \in 1..4 |-> NatToStr(parts[i])], ".")
  ELSE Null

\* /^\d+$/.test(ip) with num = Number(ip), and num > 0 && num < 0xFFFFFFFF
IsIntegerForm(ip, num) ==
  /\ Len(ip) > 0 /\ AllDigits(ip)
  /\ (num.over \/ num.hi > 0 \/ num.lo > 0)
  /\ ~num.over /\ ~(num.hi = 65535 /\ num.lo = 65535)

\* normalizeIPv4(ip): string | null
normalizeIPv4(ip) ==
  IF IsIntegerForm(ip, WideOfDigits(ip, 10, WideZero))
  THEN DottedOfWide(WideOfDigits(ip, 10, WideZero))
  ELSE IF StartsWith(ip, <<"0", "x">>) THEN DottedOfWide(ParseInt(ip, 16))
  ELSE IF StartsWith(ip, <<"0">>) /\ ip # <<"0">> THEN DottedOfWide(ParseInt(ip, 8))
  ELSE DottedOfParts(NumbersOf(Split(ip, ".")))

\* Number(bits) of a CIDR suffix: -1 stands for NaN (no suffix, or text
\* that is not a number)
NumberOfBits(cidr) ==
  LET parts == Split(cidr, "/")
  IN IF Len(parts) < 2 THEN -1 ELSE NumberOfSegment(parts[2])

\* the octets of a canonical dotted string
OctetsOf(dotted) == NumbersOf(Split(dotted, "."))

\* split('.').reduce((acc, o) => (acc << 8) + Number(o), 0): the last shift
\* wraps to a signed 32-bit value
Int32OfOctets(o) ==
  (IF o[1] >= 128 THEN o[1] - 256 ELSE o[1]) * 16777216 + o[2] * 65536 + o[3] * 256 + o[4]

\* 2^n for n in 0..30
RECURSIVE Pow2(_)
Pow2(n) == IF n = 0 THEN 1 ELSE 2 * Pow2(n - 1)

\* x & mask for a signed 32-bit x and mask = (~0 << shift) >>> 0
AndMask(x, shift) ==
  IF shift = 31 THEN (IF x < 0 THEN -2147483647 - 1 ELSE 0)
  ELSE (x \div Pow2(shift)) * Pow2(shift)

\* the shift count of ~0 << (32 - maskBits): (32 - maskBits) & 31, and 0 for NaN
MaskShift(maskBits) == IF maskBits < 0 THEN 0 ELSE (32 - maskBits) % 32

\* (ipInt & mask) === (rangeInt & mask), after the null and the /0 returns
InSameNetwork(ipNorm, rangeNorm, maskBits) ==
  IF ipNorm = Null \/ rangeNorm = Null THEN FALSE
  ELSE IF maskBits = 0 THEN TRUE
  ELSE AndMask(Int32OfOctets(OctetsOf(ipNorm)), MaskShift(maskBits))
       = AndMask(Int32OfOctets(OctetsOf(rangeNorm)), MaskShift(maskBits))

\* isIpv4InCidr(ip, cidr)
isIpv4InCidr(ip, cidr) ==
  InSameNetwork(normalizeIPv4(ip), normalizeIPv4(Split(cidr, "/")[1]), NumberOfBits(cidr))

\* isIPv6(ip)
isIPv6(ip) == Includes(ip, ":")

\* parseInt(p || '0', 16) as used on one group: NaN counts as 0 under ^
GroupValue(p) ==
  LET body == IF Len(p) >= 2 /\ p[1] = "0" /\ ToLowerChar(p[2]) = "x"
              THEN SubSeq(p, 3, Len(p)) ELSE p
      kb == DigitPrefixLen(body, 16)
      w == WideOfDigits(SubSeq(body, 1, kb), 16, WideZero)
  IN IF Len(p) = 0 \/ kb = 0 THEN 0 ELSE w.hi * 65536 + w.lo

\* parts.map(p => parseInt(p || '0', 16))
GroupValues(parts) == [i \in 1..Len(parts) |-> GroupValue(parts[i])]

\* the inner function expand of isIPv6InCidr: [ok, parts]; ok is FALSE when
\* Array(missing) throws a RangeError
Expand(v) ==
  LET parts == Split(v, ":")
      hasEmpty == \E i \in 1..Len(parts) : parts[i] = <<>>
      emptyIndex == CHOOSE i \in 1..Len(parts) :
                      parts[i] = <<>> /\ \A j \in 1..(i - 1) : parts[j] # <<>>
      missing == 8 - (Len(parts) - 1)
  IN IF hasEmpty /\ missing < 0 THEN [ok |-> FALSE, parts |-> <<>>]
     ELSE [ok |-> TRUE,
           parts |-> GroupValues(IF ~hasEmpty THEN parts
                                 ELSE SubSeq(parts, 1, emptyIndex - 1)
                                      \o [i \in 1..missing |-> <<"0">>]
                                      \o SubSeq(parts, emptyIndex + 1, Len(parts)))]

\* a ^ b on non-negative integers
RECURSIVE Xor(_, _)
Xor(a, b) ==
  IF a = 0 /\ b = 0 THEN 0
  ELSE (((a % 2) + (b % 2)) % 2) + 2 * Xor(a \div 2, b \div 2)

\* Math.floor(Math.log2(n)) for n >= 1
RECURSIVE FloorLog2(_)
FloorLog2(n) == IF n <= 1 THEN 0 ELSE 1 + FloorLog2(n \div 2)

\* the loop of isIPv6InCidr from group i (1-based) on
RECURSIVE MatchedBits(_, _, _)
MatchedBits(ipParts, rangeParts, i) ==
  IF i > 8 THEN 0
  ELSE LET a == IF i <= Len(ipParts) THEN ipParts[i] ELSE 0
           b == IF i <= Len(rangeParts) THEN rangeParts[i] ELSE 0
           diff == Xor(a, b)
       IN IF diff = 0 THEN 16 + MatchedBits(ipParts, rangeParts, i + 1)
          ELSE 16 - FloorLog2(diff) - 1

\* the comparison as a mutant: the prefix must be exceeded, not reached
PrefixMatches_Strict(bits, ipParts, rangeParts) ==
  IF ~ipParts.ok \/ ~rangeParts.ok THEN FALSE
  ELSE IF bits < 0 THEN FALSE
  ELSE MatchedBits(ipParts.parts, rangeParts.parts, 1) > bits

\* the comparison of isIPv6InCidr once both addresses are expanded
PrefixMatches(bits, ipParts, rangeParts) ==
  IF ~ipParts.ok \/ ~rangeParts.ok THEN FALSE
  ELSE IF bits < 0 THEN FALSE
  ELSE MatchedBits(ipParts.parts, rangeParts.parts, 1) >= bits

\* isIPv6InCidr(ip, cidr)
isIPv6InCidr(ip, cidr) ==
  PrefixMatches(NumberOfBits(cidr), Expand(ip), Expand(Split(cidr, "/")[1]))

(***************************************************************************)
(* URL strings.  A URL string is a record [scheme, host, path]: scheme is  *)
(* the text up to and including ':' ("" when the string has none, as in    *)
(* 'not-a-url' or '/v1/users'), host is the host as written, path is the   *)
(* rest.  new URL(...) is the WHATWG parser of the platform: for the       *)
(* special schemes used here it lower-cases the host, turns a host that    *)
(* ends in a number into canonical dotted IPv4, and keeps an IPv6 literal  *)
(* in its brackets.                                                        *)
(***************************************************************************)
Failure == <<"failure">>

\* one part of a host read as an IPv4 number (WHATWG "IPv4 number parser"):
\* [ok, n]
ParseIPv4Number(part) ==
  LET n == Len(part)
      isHex == n >= 2 /\ part[1] = "0" /\ ToLowerChar(part[2]) = "x"
      isOct == ~isHex /\ n >= 2 /\ part[1] = "0"
      radix == IF isHex THEN 16 ELSE IF isOct THEN 8 ELSE 10
      body == IF isHex THEN SubSeq(part, 3, n) ELSE IF isOct THEN SubSeq(part, 2, n) ELSE part
  IN IF n = 0 THEN [ok |-> FALSE, n |-> WideZero]
     ELSE IF DigitPrefixLen(body, radix) # Len(body) THEN [ok |-> FALSE, n |-> WideZero]
     ELSE [ok |-> TRUE, n |-> WideOfDigits(body, radix, WideZero)]

\* the parts of a host between dots, a trailing empty part dropped
HostParts(host) ==
  LET parts == Split(host, ".")
  IN IF Len(parts) > 1 /\ parts[Len(parts)] = <<>> THEN SubSeq(parts, 1, Len(parts) - 1)
     ELSE parts

\* WHATWG "ends in a number" checker
EndsInNumber(host) ==
  LET parts == HostParts(host)
      last == parts[Len(parts)]
  IN host # <<>> /\ ((Len(last) > 0 /\ AllDigits(last)) \/ ParseIPv4Number(last).ok)

\* the address of the parsed parts of a host
IPv4OfNumbers(k, nums) ==
  LET small(n) == ~n.over /\ n.hi = 0 /\ n.lo <= 255
      fits(last) == CASE k = 1 -> ~last.over
                      [] k = 2 -> ~last.over /\ last.hi < 256
                      [] k = 3 -> ~last.over /\ last.hi = 0
                      [] OTHER -> ~last.over /\ last.hi = 0 /\ last.lo < 256
  IN IF k > 4 THEN Failure
     ELSE IF \E i \in 1..k : ~nums[i].ok THEN Failure
     ELSE IF \E i \in 1..(k - 1) : ~small(nums[i].n) THEN Failure
     ELSE IF ~fits(nums[k].n) THEN Failure
     ELSE Join([i \in 1..4 |-> NatToStr(IF i < k THEN nums[i].n.lo
                                        ELSE ByteOf(nums[k].n, 8 * (4 - i)))], ".")

\* WHATWG IPv4 parser and serializer: canonical dotted text or Failure
ParseIPv4(host) ==
  LET parts == HostParts(host)
  IN IPv4OfNumbers(Len(parts), [i \in 1..Len(parts) |-> ParseIPv4Number(parts[i])])

\* strict dotted decimal: four octets 0..255 without leading zeros
IsStrictIPv4(s) ==
  LET parts == Split(s, ".")
  IN /\ Len(parts) = 4
     /\ \A i \in 1..4 :
          /\ Len(parts[i]) \in 1..3
          /\ AllDigits(parts[i])
          /\ (Len(parts[i]) > 1 => parts[i][1] # "0")
          /\ SmallOfDigits(parts[i], 10, 0) <= 255

\* one IPv6 piece: 1 to 4 hexadecimal digits
IsPiece(p) == Len(p) \in 1..4 /\ DigitPrefixLen(p, 16) = Len(p)

\* the pieces of the groups heads, followed by those of a dotted IPv4 tail
PiecesOfParts(heads, hasTail, last) ==
  LET pair(tail) == <<tail[1] * 256 + tail[2], tail[3] * 256 + tail[4]>>
  IN IF \E i \in 1..Len(heads) : ~IsPiece(heads[i]) THEN [ok |-> FALSE, pieces |-> <<>>]
     ELSE IF ~hasTail THEN [ok |-> TRUE, pieces |-> GroupValues(heads)]
     ELSE IF ~IsStrictIPv4(last) THEN [ok |-> FALSE, pieces |-> <<>>]
     ELSE [ok |-> TRUE, pieces |-> GroupValues(heads) \o pair(OctetsOf(last))]

\* the pieces of a run "a:b:c" (possibly ending in a dotted IPv4 tail) as
\* numbers: [ok, pieces]
PiecesOf(run) ==
  LET parts == Split(run, ":")
      n == Len(parts)
      hasTail == Includes(parts[n], ".")
  IN IF run = <<>> THEN [ok |-> TRUE, pieces |-> <<>>]
     ELSE PiecesOfParts(IF hasTail THEN SubSeq(parts, 1, n - 1) ELSE parts, hasTail, parts[n])

\* position of the first "::" in s, 0 when absent
DoubleColonAt(s) ==
  IF \E i \in 1..(Len(s) - 1) : s[i] = ":" /\ s[i + 1] = ":"
  THEN CHOOSE i \in 1..(Len(s) - 1) :
         /\ s[i] = ":" /\ s[i + 1] = ":"
         /\ \A j \in 1..(i - 1) : ~(s[j] = ":" /\ s[j + 1] = ":")
  ELSE 0

\* the pieces left and right of "::" with the zero pieces between them
JoinPieces(left, right) ==
  LET fill == 8 - Len(left.pieces) - Len(right.pieces)
  IN IF ~left.ok \/ ~right.ok \/ fill < 1 THEN [ok |-> FALSE, pieces |-> <<>>]
     ELSE [ok |-> TRUE, pieces |-> left.pieces \o [i \in 1..fill |-> 0] \o right.pieces]

\* an address without "::" has eight pieces
EightPieces(whole) ==
  IF whole.ok /\ Len(whole.pieces) = 8 THEN whole ELSE [ok |-> FALSE, pieces |-> <<>>]

\* an IPv6 address in text (no brackets) as eight 16-bit pieces: [ok, pieces]
ParseIPv6(s) ==
  LET dc == DoubleColonAt(s)
      rest == SubSeq(s, dc + 2, Len(s))
  IN IF Len(s) = 0 THEN [ok |-> FALSE, pieces |-> <<>>]
     ELSE IF dc = 0 THEN EightPieces(PiecesOf(s))
     ELSE IF DoubleColonAt(rest) # 0 \/ (Len(rest) > 0 /\ rest[1] = ":")
          THEN [ok |-> FALSE, pieces |-> <<>>]
     ELSE JoinPieces(PiecesOf(SubSeq(s, 1, dc - 1)), PiecesOf(rest))

\* lower-case hexadecimal text of a piece, without leading zeros
RECURSIVE HexOfNat(_)
HexOfNat(n) ==
  IF n < 16 THEN <<HexDigits[n + 1]>>
  ELSE HexOfNat(n \div 16) \o <<HexDigits[(n % 16) + 1]>>

\* length of the run of zero pieces that starts at i
RECURSIVE ZeroRun(_, _)
ZeroRun(pieces, i) ==
  IF i > Len(pieces) \/ pieces[i] # 0 THEN 0 ELSE 1 + ZeroRun(pieces, i + 1)

\* WHATWG IPv6 serializer: the first longest run of two or more zero pieces
\* is written "::"
SerializeIPv6(pieces) ==
  LET best == CHOOSE i \in 1..8 :
                /\ \A j \in 1..8 : ZeroRun(pieces, j) <= ZeroRun(pieces, i)
                /\ \A j \in 1..(i - 1) : ZeroRun(pieces, j) < ZeroRun(pieces, i)
      run == ZeroRun(pieces, best)
      text(from, to) == Join([i \in 1..(to - from + 1) |-> HexOfNat(pieces[from + i - 1])], ":")
  IN IF run < 2 THEN text(1, 8)
     ELSE text(1, best - 1) \o <<":", ":">> \o text(best + run, 8)

\* an IPv6 literal between brackets, serialized
BracketedHost(inner) ==
  IF ~inner.ok THEN Failure ELSE <<"[">> \o SerializeIPv6(inner.pieces) \o <<"]">>

\* the host parser as a mutant: a host that ends in a number is kept as written
DomainOrIPv4_Verbatim(ascii) == ascii

\* a host that is no IPv6 literal, in lower case
DomainOrIPv4(ascii) == IF EndsInNumber(ascii) THEN ParseIPv4(ascii) ELSE ascii

\* WHATWG host parser for a special scheme: the serialized host or Failure
ParseHost(host) ==
  LET n == Len(host)
  IN IF n = 0 THEN Failure
     ELSE IF host[1] = "["
          THEN (IF host[n] # "]" THEN Failure
                ELSE BracketedHost(ParseIPv6(SubSeq(host, 2, n - 1))))
     ELSE IF \E i \in 1..n : host[i] \in {":", "[", "]", "/", "%", " "} THEN Failure
     ELSE DomainOrIPv4(ToLower(host))

\* a URL string that does not parse
NotAUrl == [scheme |-> "", host |-> <<>>, path |-> "/"]

\* the URL record of the string u whose host parses to h
UrlOf(u, h) ==
  IF u.scheme = "" \/ h = Failure
  THEN [ok |-> FALSE, protocol |-> "", hostname |-> <<>>, href |-> NotAUrl]
  ELSE [ok |-> TRUE, protocol |-> u.scheme, hostname |-> h,
        href |-> [scheme |-> u.scheme, host |-> h, path |-> u.path]]

\* new URL(u): [ok, protocol, hostname, href]; href is what toString() gives
ParseUrl(u) == UrlOf(u, ParseHost(u.host))

\* the reference ref against the parsed URL b (ref itself when absolute)
Against(ref, b) ==
  IF ref.scheme # "" \/ ~b.ok THEN b
  ELSE [b EXCEPT !.href = [b.href EXCEPT !.path = ref.path]]

\* new URL(ref, base): an absolute ref stands alone, a relative one takes
\* scheme and host of the base
ResolveUrl(ref, base) == Against(ref, ParseUrl(IF ref.scheme # "" THEN ref ELSE base))

\* net.isIP(host): 4, 6 or 0
netIsIP(host) ==
  IF IsStrictIPv4(host) THEN 4
  ELSE IF Includes(host, ":") /\ ParseIPv6(host).ok THEN 6
  ELSE 0

(***************************************************************************)
(* Policy store: security/rules                                            *)
(***************************************************************************)
\* securityRulesConfig.ssrf of rules.provider
securityRulesConfig ==
  [allowedHosts |-> {<<"*">>},
   blockedIpRanges |-> <<
     <<"1", "2", "7", ".", "0", ".", "0", ".", "1", "/", "8">>,
     <<"1", "0", ".", "0", ".", "0", ".", "0", "/", "8">>,
     <<"1", "7", "2", ".", "1", "6", ".", "0", ".", "0", "/", "1", "2">>,
     <<"1", "9", "2", ".", "1", "6", "8", ".", "0", ".", "0", "/", "1", "6">>,
     <<"1", "6", "9", ".", "2", "5", "4", ".", "0", ".", "0", "/", "1", "6">>,
     <<"2", "2", "4", ".", "0", ".", "0", ".", "0", "/", "4">>,
     <<":", ":", "1", "/", "1", "2", "8">>,
     <<"f", "e", "8", "0", ":", ":", "/", "1", "0">>,
     <<"f", "c", "0", "0", ":", ":", "/", "7">>
   >>,
   maxRedirects |-> 5,
   validateRedirectChain |-> TRUE,
   allowedProtocols |-> {"http:", "https:"},
   maxResponseSizeBytes |-> 1024 * 1024 * 5]

\* a second configuration, with an allowlist and without following redirects
\* unchecked: the values SECURITY_RULES_CONFIG may be provided with
allowlistRulesConfig ==
  [securityRulesConfig EXCEPT
     !.allowedHosts = {<<"a", ".", "c", "o", "m">>, <<"1", "2", "7", ".", "0", ".", "0", ".", "1">>},
     !.maxRedirects = 1,
     !.validateRedirectChain = FALSE]

RuleSets == {securityRulesConfig, allowlistRulesConfig}

(***************************************************************************)
(* State                                                                   *)
(***************************************************************************)
VARIABLES
  rules,       \* the injected SECURITY_RULES_CONFIG (rules.ssrf)
  pc,          \* "idle", "lookup" (validateUrlOrThrow awaits dns.lookup),
               \* "http" (the adapter awaits httpAdapter), "rawhttp",
               \* "returned", "thrown"
  caller,      \* who called validateUrlOrThrow: "adapter" or "guard"
  config,      \* the request config the adapter was called with
  fetch,       \* locals of securityAxiosAdapter: maxRedirects, currentUrl,
               \* currentConfig, redirectCount
  validating,  \* locals of the pending validateUrlOrThrow call, and the
               \* status of the redirect response that led to it
  outcome,     \* what the call returned or threw
  obs,         \* history: calls made, the last validation, the last request
  connected,   \* history: the address the raw transport connected to last,
               \* and the address the validation before that request classified
  nInput,      \* classifier checks: the input under test
  nOutput,     \* classifier checks: the results for that input
  batch,       \* fetchMany: the urls it was called with and what it returned
  members,     \* fetchMany: the fetchOne call of every url, in input order
  calls,       \* POST /requests/create: the calls in flight or answered
  store,       \* RequestsService.store: id -> record
  now,         \* Date.now()
  gets         \* history: the getOne calls made, each with what it gave

\* the state of UrlFetcherService.fetchMany and of RequestsService
svcVars == <<batch, members, calls, store, now, gets>>

vars == <<rules, pc, caller, config, fetch, validating, outcome, obs, connected,
          nInput, nOutput, svcVars>>

(***************************************************************************)
(* Errors and results                                                      *)
(***************************************************************************)
NoResponse == [status |-> 0, location |-> NotAUrl, hasLocation |-> FALSE]

Err(type, text, host, address, url, n) ==
  [type |-> type, text |-> text, host |-> host, address |-> address, url |-> url, n |-> n]

NoError == Err("", "", <<>>, Null, NotAUrl, 0)

\* new ForbiddenException(`Invalid URL: ${urlStr}`)
InvalidUrlError(urlStr) ==
  Err("ForbiddenException", "Invalid URL: ${urlStr}", <<>>, Null, urlStr, 0)
\* new ForbiddenException(`Host not allowed by SSRF policy: ${host}`)
HostNotAllowedError(host) ==
  Err("ForbiddenException", "Host not allowed by SSRF policy: ${host}", host, Null, NotAUrl, 0)
\* new ForbiddenException(`DNS resolution failed for host: ${host}`)
DnsFailedError(host) ==
  Err("ForbiddenException", "DNS resolution failed for host: ${host}", host, Null, NotAUrl, 0)
\* new ForbiddenException(`SSRF blocked: private IP ${address} for host ${host}`)
PrivateIpError(address, host) ==
  Err("ForbiddenException", "SSRF blocked: private IP ${address} for host ${host}",
      host, address, NotAUrl, 0)
\* new Error(`Maximum redirects (${maxRedirects}) exceeded`)
MaxRedirectsError(maxRedirects) ==
  Err("Error", "Maximum redirects (${maxRedirects}) exceeded", <<>>, Null, NotAUrl, maxRedirects)
\* new Error(`Request failed with status code ${response.status}`)
StatusError(status) ==
  Err("Error", "Request failed with status code ${response.status}", <<>>, Null, NotAUrl, status)
\* the TypeError of new URL(location, currentUrl)
UrlTypeError(urlStr) == Err("TypeError", "Invalid URL", <<>>, Null, urlStr, 0)
\* whatever the raw transport rejects with
TransportError == Err("AxiosError", "transport failure", <<>>, Null, NotAUrl, 0)

\* an undefined url or baseURL (falsy)
NoUrl == [scheme |-> "", host |-> <<>>, path |-> ""]

\* maxRedirects: undefined
Undefined == -1

NoConfig == [url |-> NoUrl, baseURL |-> NoUrl, method |-> "", maxRedirects |-> Undefined,
             validateStatus |-> "none"]

Pending == [kind |-> "pending", error |-> NoError, response |-> NoResponse, config |-> NoConfig]
\* the rejection as a mutant: the error is replaced by a generic one
Threw_Generic(e) ==
  [kind |-> "error", error |-> TransportError, response |-> NoResponse, config |-> NoConfig]
Threw(e) == [kind |-> "error", error |-> e, response |-> NoResponse, config |-> NoConfig]
Returned(r) == [kind |-> "response", error |-> NoError, response |-> r, config |-> NoConfig]
Accepted == [kind |-> "accepted", error |-> NoError, response |-> NoResponse, config |-> NoConfig]

(***************************************************************************)
(* SSRF policy engine: security/policy/ssrf-policy.service                 *)
(***************************************************************************)
\* normIp && normRange && normIp === normRange
SameAddress(normIp, normRange) ==
  normIp # Null /\ normIp # <<>> /\ normRange # Null /\ normRange # <<>> /\ normIp = normRange

\* SsrfPolicyService.isPrivateIp(ip): the loop returns true at the first
\* entry that matches
isPrivateIp(ip) ==
  \E i \in 1..Len(rules.blockedIpRanges) :
    LET range == rules.blockedIpRanges[i]
    IN IF ~Includes(range, "/")
       THEN IF isIPv6(ip) THEN ToLower(ip) = ToLower(range)
            ELSE SameAddress(normalizeIPv4(ip), normalizeIPv4(range))
       ELSE IF isIPv6(ip) THEN isIPv6InCidr(ip, range)
            ELSE isIpv4InCidr(ip, range)

Verdict(next, error, host, address) ==
  [next |-> next, error |-> error, host |-> host, address |-> address]

\* the end of validateUrlOrThrow: the address is classified
ClassifyAddress(host, address) ==
  IF isPrivateIp(address) THEN Verdict("throw", PrivateIpError(address, host), host, address)
  ELSE Verdict("accept", NoError, host, address)

\* the allowlist check as a mutant: the allowlist is not consulted
CheckParsed_NoAllowlist(urlStr, parsed) ==
  IF ~parsed.ok THEN Verdict("throw", InvalidUrlError(urlStr), <<>>, Null)
  ELSE IF netIsIP(parsed.hostname) # 0 THEN ClassifyAddress(parsed.hostname, parsed.hostname)
  ELSE Verdict("lookup", NoError, parsed.hostname, Null)

\* validateUrlOrThrow from the allowlist check on, up to its await
CheckParsed(urlStr, parsed) ==
  IF ~parsed.ok THEN Verdict("throw", InvalidUrlError(urlStr), <<>>, Null)
  ELSE IF <<"*">> \notin rules.allowedHosts /\ parsed.hostname \notin rules.allowedHosts
       THEN Verdict("throw", HostNotAllowedError(parsed.hostname), parsed.hostname, Null)
  ELSE IF netIsIP(parsed.hostname) # 0 THEN ClassifyAddress(parsed.hostname, parsed.hostname)
  ELSE Verdict("lookup", NoError, parsed.hostname, Null)

\* validateUrlOrThrow(urlStr) up to its await: it throws, goes on to
\* dns.lookup(host), or classifies the literal host
validateUrlOrThrow_Sync(urlStr) == CheckParsed(urlStr, ParseUrl(urlStr))

\* validateUrlOrThrow as a mutant: a host that an earlier call accepted is
\* accepted again without looking at the new answer
validateUrlOrThrow_Cached(host, answer) ==
  IF answer = Failure THEN Verdict("throw", DnsFailedError(host), host, Null)
  ELSE IF host \in obs.acceptedHosts THEN Verdict("accept", NoError, host, answer)
  ELSE ClassifyAddress(host, answer)

\* validateUrlOrThrow after its await: dns.lookup(host) rejected (answer is
\* Failure) or resolved to result.address
validateUrlOrThrow_Resume(host, answer) ==
  IF answer = Failure THEN Verdict("throw", DnsFailedError(host), host, Null)
  ELSE ClassifyAddress(host, answer)

(***************************************************************************)
(* Environment: the requests, the DNS and the responses tried              *)
(***************************************************************************)
Url(scheme, host, path) == [scheme |-> scheme, host |-> host, path |-> path]

\* IPv4 addresses in canonical text, inside and at the edges of the ranges
Ipv4Samples ==
  {<<"8", ".", "8", ".", "8", ".", "8">>,
   <<"9", "3", ".", "1", "8", "4", ".", "2", "1", "6", ".", "3", "4">>,
   <<"1", "2", "7", ".", "0", ".", "0", ".", "1">>,
   <<"1", "2", "7", ".", "2", "5", "5", ".", "2", "5", "5", ".", "2", "5", "5">>,
   <<"1", "0", ".", "0", ".", "0", ".", "1">>,
   <<"1", "0", ".", "2", "5", "5", ".", "2", "5", "5", ".", "2", "5", "5">>,
   <<"1", "7", "2", ".", "1", "6", ".", "0", ".", "1">>,
   <<"1", "7", "2", ".", "3", "1", ".", "2", "5", "5", ".", "2", "5", "5">>,
   <<"1", "7", "2", ".", "3", "2", ".", "0", ".", "0">>,
   <<"1", "7", "2", ".", "1", "5", ".", "2", "5", "5", ".", "2", "5", "5">>,
   <<"1", "9", "2", ".", "1", "6", "8", ".", "1", ".", "1">>,
   <<"1", "9", "2", ".", "1", "6", "9", ".", "0", ".", "0">>,
   <<"1", "6", "9", ".", "2", "5", "4", ".", "1", "6", "9", ".", "2", "5", "4">>,
   <<"2", "2", "4", ".", "0", ".", "0", ".", "1">>,
   <<"2", "3", "9", ".", "2", "5", "5", ".", "2", "5", "5", ".", "2", "5", "5">>,
   <<"2", "4", "0", ".", "0", ".", "0", ".", "1">>,
   <<"1", "2", "8", ".", "0", ".", "0", ".", "1">>,
   <<"0", ".", "0", ".", "0", ".", "0">>}

\* IPv6 addresses in the text dns.lookup gives
Ipv6Samples ==
  {<<":", ":", "1">>,
   <<":", ":", "2">>,
   <<"f", "e", "8", "0", ":", ":", "1">>,
   <<"f", "e", "b", "f", ":", ":", "1">>,
   <<"f", "e", "c", "0", ":", ":", "1">>,
   <<"f", "c", "0", "0", ":", ":", "1">>,
   <<"f", "d", "0", "0", ":", ":", "1">>,
   <<"f", "e", "0", "0", ":", ":", "1">>,
   <<"2", "6", "0", "7", ":", "f", "8", "b", "0", ":", "4", "0", "0", "4", ":", "8", "0", "0", ":", ":", "2", "0", "0", "e">>,
   <<"F", "E", "8", "0", ":", ":", "1">>,
   <<"1", "0", ":", ":", "1">>,
   <<"1", "2", "7", ":", ":", "1">>,
   <<"1", "9", "2", ":", ":", "1">>}

HostA == <<"a", ".", "c", "o", "m">>
HostAny == <<"a", "n", "y", ".", "t", "e", "s", "t">>
PublicV4 == <<"9", "3", ".", "1", "8", "4", ".", "2", "1", "6", ".", "3", "4">>
LoopbackV4 == <<"1", "2", "7", ".", "0", ".", "0", ".", "1">>
LoopbackV6 == <<":", ":", "1">>
MetadataV4 == <<"1", "6", "9", ".", "2", "5", "4", ".", "1", "6", "9", ".", "2", "5", "4">>

\* what dns.lookup(host) may answer.  No name server answers for a name in
\* brackets; the name any.test stands for a name that may resolve to every
\* sample address, the other names for one that flips between a public
\* and a loopback address (DNS rebinding).
DnsAnswers(host) ==
  IF Len(host) > 0 /\ host[1] = "[" THEN {Failure}
  ELSE IF host = HostAny THEN Ipv4Samples \cup Ipv6Samples \cup {Failure}
  ELSE {PublicV4, LoopbackV4, Failure}

\* the addresses the raw transport may connect to for a request URL: the
\* literal host itself, or what its own lookup of the host name answers
ConnectAddrs(urlStr) ==
  UNION {IF ~p.ok \/ p.protocol \notin {"http:", "https:"} THEN {}
         ELSE IF p.hostname[1] = "[" THEN {SubSeq(p.hostname, 2, Len(p.hostname) - 1)}
         ELSE IF IsStrictIPv4(p.hostname) THEN {p.hostname}
         ELSE DnsAnswers(p.hostname) \ {Failure} : p \in {ParseUrl(urlStr)}}

(***************************************************************************)
(* The spellings of an IPv4 address <<a, b, c, d>>                         *)
(***************************************************************************)
\* digits of the number hi * 65536 + lo in the radix, most significant first
RECURSIVE DigitsOf(_, _, _)
DigitsOf(hi, lo, radix) ==
  LET t == (hi % radix) * 65536 + lo
      qhi == hi \div radix
      qlo == t \div radix
      d == <<HexDigits[(t % radix) + 1]>>
  IN IF qhi = 0 /\ qlo = 0 THEN d ELSE DigitsOf(qhi, qlo, radix) \o d

DottedForm(o) == Join([i \in 1..4 |-> NatToStr(o[i])], ".")
DecimalForm(o) == DigitsOf(o[1] * 256 + o[2], o[3] * 256 + o[4], 10)
HexForm(o) == <<"0", "x">> \o DigitsOf(o[1] * 256 + o[2], o[3] * 256 + o[4], 16)
OctalForm(o) == <<"0">> \o DigitsOf(o[1] * 256 + o[2], o[3] * 256 + o[4], 8)

\* addresses inside the default denylist, spelled as one number
BlockedOctets ==
  {<<127, 0, 0, 1>>, <<10, 1, 2, 3>>, <<172, 16, 0, 1>>, <<192, 168, 1, 1>>,
   <<169, 254, 169, 254>>, <<224, 0, 0, 1>>}
AltEncodedHosts ==
  {DecimalForm(o) : o \in BlockedOctets} \cup {HexForm(o) : o \in BlockedOctets}
    \cup {OctalForm(o) : o \in BlockedOctets}

(***************************************************************************)
(* Secure transport: security/http/security-axios.adapter                  *)
(***************************************************************************)
REDIRECT_CODES == {301, 302, 303, 307, 308}

\* the base of the redirect target as a mutant: the URL the fetch began with
RedirectBase_Initial(currentUrl, initialUrl) == initialUrl

\* the base in new URL(location, currentUrl): the URL of the request that
\* was answered with the redirect
RedirectBase(currentUrl, initialUrl) == currentUrl

\* the redirect test as a mutant: every 3xx status with a Location header
IsRedirect_Any3xx(response) ==
  response.status >= 300 /\ response.status < 400 /\ response.hasLocation

\* REDIRECT_CODES.includes(response.status) && response.headers.location
IsRedirect(response) == response.status \in REDIRECT_CODES /\ response.hasLocation

\* the hop limit as a mutant: one more hop is let through
ExceedsLimit_OffByOne(redirectCount, maxRedirects) == redirectCount > maxRedirects + 1

\* redirectCount > maxRedirects
ExceedsLimit(redirectCount, maxRedirects) == redirectCount > maxRedirects

\* the method of the next hop as a mutant: every code but 303 restores the
\* method of the caller's config
NextMethod_Original(status, method) == IF status = 303 THEN "GET" ELSE config.method

\* the method of the next hop as a mutant: the method is always kept
NextMethod_Keep(status, method) == method

\* method: response.status === 303 ? 'GET' : currentConfig.method
NextMethod(status, method) == IF status = 303 THEN "GET" ELSE method

\* the argument of the redirect validation as a mutant: the URL that was
\* validated already is validated again
RedirectValidationArg_Stale(redirectUrl, currentUrl) == currentUrl

\* the argument of the redirect validation as a mutant: with
\* validateRedirectChain off the redirect target is not validated, the
\* URL that was validated already takes its place
RedirectValidationArg_Optional(redirectUrl, currentUrl) ==
  IF rules.validateRedirectChain THEN redirectUrl ELSE currentUrl

\* the argument of validateUrlOrThrow in the loop: redirectUrl
RedirectValidationArg(redirectUrl, currentUrl) == redirectUrl

\* the status check as a mutant: the caller's predicate is never applied
StatusRejected_Never(validateStatus, status) == FALSE

\* config.validateStatus && !config.validateStatus(response.status)
StatusRejected(validateStatus, status) ==
  CASE validateStatus = "lt400" -> ~(status < 400)
    [] validateStatus = "2xx" -> ~(status >= 200 /\ status < 300)
    [] OTHER -> FALSE

\* the caller's config as a mutant: currentConfig is built by assigning to
\* the config object itself
CallerConfig_InPlace(cfg, currentConfig) == currentConfig

\* the caller's config once currentConfig is built: { ...config, ... } and
\* { ...currentConfig, ... } are new objects, config is not assigned to
CallerConfig(cfg, currentConfig) == cfg

NotValidating == [url |-> NotAUrl, host |-> <<>>, target |-> NotAUrl, status |-> 0]

NoValidation ==
  [url |-> NotAUrl, host |-> <<>>, address |-> Null, accepted |-> FALSE,
   error |-> NoError, lookups |-> 0, done |-> FALSE, hostSeenAccepted |-> FALSE]

NoRequest == NoConfig

\* what happens once validateUrlOrThrow(urlStr) has thrown or returned:
\* the exception leaves the caller, or the guard goes on, or the adapter
\* issues the request for the validated URL.  st is 0 for the initial URL
\* and the status of the redirect response for a redirect target; target
\* is the adapter's currentUrl (initial) or redirectUrl.
Settle(who, cfg, f, o, v, urlStr, target, st) ==
  LET lv == [url |-> urlStr, host |-> v.host, address |-> v.address,
             accepted |-> v.next = "accept", error |-> v.error,
             lookups |-> o.callLookups, done |-> TRUE,
             hostSeenAccepted |-> v.host \in o.acceptedHosts]
      \* { ...config, url: currentUrl, maxRedirects: 0, validateStatus: () => true }
      \* and { ...currentConfig, url: redirectUrl, method: ... }
      cc == IF st = 0
            THEN [cfg EXCEPT !.url = target, !.maxRedirects = 0, !.validateStatus = "any"]
            ELSE [f.currentConfig EXCEPT !.url = target,
                                         !.method = NextMethod(st, f.currentConfig.method)]
      f2 == IF st = 0 THEN [f EXCEPT !.redirectCount = 0, !.currentConfig = cc]
            ELSE [f EXCEPT !.currentUrl = target, !.currentConfig = cc]
      oAcc == [o EXCEPT !.lastValidation = lv, !.validateOk = @ + 1,
                        !.acceptedHosts = @ \cup {v.host}]
  IN /\ validating' = NotValidating
     /\ IF v.next = "throw"
        THEN /\ pc' = "thrown"
             /\ outcome' = Threw(v.error)
             /\ fetch' = f
             /\ config' = cfg
             /\ obs' = [o EXCEPT !.lastValidation = lv]
        ELSE IF who = "guard"
        THEN /\ pc' = "returned"
             /\ outcome' = Accepted
             /\ fetch' = f
             /\ config' = cfg
             /\ obs' = oAcc
        ELSE /\ pc' = "http"
             /\ outcome' = Pending
             /\ fetch' = f2
             /\ config' = CallerConfig(cfg, cc)
             /\ obs' = [oAcc EXCEPT !.transport = @ + 1, !.lastRequest = cc,
                                    !.after303 = @ \/ st = 303]

\* a call of validateUrlOrThrow(urlStr) up to its first await
BeginValidation(who, cfg, f, o, urlStr, target, st) ==
  \E v \in {validateUrlOrThrow_Sync(urlStr)} :
    IF v.next = "lookup"
    THEN /\ pc' = "lookup"
         /\ validating' = [url |-> urlStr, host |-> v.host, target |-> target, status |-> st]
         /\ outcome' = Pending
         /\ fetch' = f
         /\ config' = cfg
         /\ obs' = [o EXCEPT !.validate = @ + 1, !.callLookups = 1, !.lookups = @ + 1,
                             !.lookupHost = v.host,
                             !.lastValidation = [NoValidation EXCEPT !.url = urlStr,
                                                                     !.host = v.host]]
    ELSE Settle(who, cfg, f, [o EXCEPT !.validate = @ + 1, !.callLookups = 0], v,
                urlStr, target, st)

NoConnection == [address |-> Null, validated |-> Null]

NoFetch ==
  [maxRedirects |-> 0, currentUrl |-> NoUrl, currentConfig |-> NoRequest, redirectCount |-> 0]

NoObs ==
  [validate |-> 0, validateOk |-> 0, transport |-> 0, lookups |-> 0, callLookups |-> 0,
   lookupHost |-> <<>>, lastAnswer |-> Null, redirects |-> 0, responses |-> 0,
   lastValidation |-> NoValidation, lastRequest |-> NoRequest, acceptedHosts |-> {},
   lastResponse |-> NoResponse, priorRequest |-> NoRequest, after303 |-> FALSE]

(***************************************************************************)
(* Requests and responses tried                                            *)
(***************************************************************************)
MaxConfigRedirects == 2

Relative(path) == [scheme |-> "", host |-> <<>>, path |-> path]

FetchUrls ==
  {Url("http:", HostA, "/"),
   Url("http:", <<"8", ".", "8", ".", "8", ".", "8">>, "/"),
   Url("http:", LoopbackV4, "/"),
   Url("http:", DecimalForm(<<127, 0, 0, 1>>), "/"),
   Url("http:", OctalForm(<<10, 1, 2, 3>>), "/"),
   Url("http:", <<"[", ":", ":", "1", "]">>, "/"),
   Url("ftp:", HostA, "/"),
   NotAUrl}

Config(url, baseURL, method, maxRedirects, validateStatus) ==
  [url |-> url, baseURL |-> baseURL, method |-> method, maxRedirects |-> maxRedirects,
   validateStatus |-> validateStatus]

Configs ==
  {Config(u, NoUrl, "GET", 1, "none") : u \in FetchUrls}
    \cup {Config(Url("http:", HostA, "/"), NoUrl, "GET", r, "none") :
            r \in {Undefined} \cup 0..MaxConfigRedirects}
    \cup {Config(Url("http:", HostA, "/"), NoUrl, m, 1, vs) :
            m \in {"GET", "POST"}, vs \in {"none", "lt400"}}
    \cup {Config(Url("http:", <<"8", ".", "8", ".", "8", ".", "8">>, "/"), NoUrl, "POST",
                  MaxConfigRedirects, "2xx")}
    \cup {Config(Relative("/a"), Url("https:", HostA, "/"), "GET", 1, "none"),
          Config(NoUrl, NoUrl, "GET", Undefined, "none")}

Locations ==
  {Url("http:", HostA, "/x"),
   Url("http:", MetadataV4, "/"),
   Url("http:", HexForm(<<127, 0, 0, 1>>), "/"),
   Url("http:", <<"8", ".", "8", ".", "8", ".", "8">>, "/"),
   Relative("/a"),
   Url("http:", <<"1", ".", "2", ".", "3", ".", "4", ".", "5">>, "/")}

Statuses == {200, 404, 300, 301, 302, 303, 307, 308}

Response(status, location) ==
  [status |-> status, location |-> location, hasLocation |-> location # NotAUrl]

\* redirects to every location, every status without a Location header, and
\* a Location header on statuses that are no redirect
Responses ==
  {Response(st, l) : st \in {302, 303, 307}, l \in Locations}
    \cup {Response(st, NotAUrl) : st \in Statuses}
    \cup {Response(200, Url("http:", MetadataV4, "/")),
          Response(300, Url("http:", MetadataV4, "/")),
          Response(301, Url("http:", <<"8", ".", "8", ".", "8", ".", "8">>, "/")),
          Response(308, Url("http:", <<"8", ".", "8", ".", "8", ".", "8">>, "/"))}

\* the URLs given to validateUrlOrThrow directly (SsrfGuard.canActivate)
ValidateUrls ==
  {Url("http:", h, "/") : h \in Ipv4Samples \cup AltEncodedHosts \cup {HostA, HostAny}}
    \cup {Url("http:", <<"[", ":", ":", "1", "]">>, "/"), Url("http:", <<"[", "f", "e", "8", "0", ":", ":", "1", "]">>, "/"), Url("http:", <<"[", "2", "6", "0", "7", ":", "f", "8", "b", "0", ":", "4", "0", "0", "4", ":", "8", "0", "0", ":", ":", "2", "0", "0", "e", "]">>, "/"),
          Url("https:", HostAny, "/a"), Url("ftp:", HostAny, "/"), Url("ftp:", <<"8", ".", "8", ".", "8", ".", "8">>, "/"),
          NotAUrl, Relative("/a"), Url("http:", <<"1", ".", "2", ".", "3", ".", "4", ".", "5">>, "/")}

\* fetchMany not called
NoBatch == [pc |-> "idle", urls |-> <<>>, results |-> <<>>]

\* no fetchMany and no create call was made, the store is the empty Map
ServiceIdle ==
  /\ batch = NoBatch
  /\ members = <<>>
  /\ calls = <<>>
  /\ store = <<>>
  /\ now = 0
  /\ gets = <<>>

(***************************************************************************)
(* Operations                                                              *)
(***************************************************************************)
Init ==
  /\ rules \in RuleSets
  /\ pc = "idle"
  /\ caller = "none"
  /\ config = NoConfig
  /\ fetch = NoFetch
  /\ validating = NotValidating
  /\ outcome = Pending
  /\ obs = NoObs
  /\ connected = NoConnection
  /\ nInput = <<0, 0, 0, 0>>
  /\ nOutput = <<>>
  /\ ServiceIdle

\* securityAxiosAdapter(config) up to its first await
Fetch(cfg) ==
  LET \* config.maxRedirects ?? rules.maxRedirects
      maxRedirects == IF cfg.maxRedirects = Undefined THEN rules.maxRedirects
                      ELSE cfg.maxRedirects
      f(currentUrl) == [NoFetch EXCEPT !.maxRedirects = maxRedirects,
                                       !.currentUrl = currentUrl]
  IN /\ pc = "idle"
     /\ caller' = "adapter"
     \* config.baseURL ? new URL(config.url, config.baseURL).toString() : config.url
     /\ \E based \in {IF cfg.baseURL # NoUrl THEN ResolveUrl(cfg.url, cfg.baseURL)
                       ELSE [ok |-> TRUE, href |-> cfg.url]} :
          IF ~based.ok
          THEN /\ pc' = "thrown"
               /\ outcome' = Threw(UrlTypeError(cfg.url))
               /\ fetch' = f(NoUrl)
               /\ config' = cfg
               /\ UNCHANGED <<validating, obs>>
          ELSE IF based.href = NoUrl
          THEN /\ pc' = "rawhttp"
               /\ outcome' = Pending
               /\ fetch' = f(NoUrl)
               /\ obs' = [obs EXCEPT !.transport = @ + 1, !.lastRequest = cfg]
               /\ config' = cfg
               /\ UNCHANGED validating
          ELSE BeginValidation("adapter", cfg, f(based.href), obs, based.href, based.href, 0)
     /\ UNCHANGED <<rules, connected, nInput, nOutput, svcVars>>

\* SsrfGuard.canActivate / validate(url): validateUrlOrThrow(rawUrl) up to
\* its first await
Validate(urlStr) ==
  /\ pc = "idle"
  /\ caller' = "guard"
  /\ BeginValidation("guard", config, fetch, obs, urlStr, urlStr, 0)
  /\ UNCHANGED <<rules, connected, nInput, nOutput, svcVars>>

\* dns.lookup(host) settles: validateUrlOrThrow goes on to its end, and so
\* does the adapter up to its next await
DnsReply ==
  /\ pc = "lookup"
  /\ \E answer \in DnsAnswers(validating.host) :
       Settle(caller, config, fetch, [obs EXCEPT !.lastAnswer = answer],
              validateUrlOrThrow_Resume(validating.host, answer),
              validating.url, validating.target, validating.status)
  /\ UNCHANGED <<rules, caller, connected, nInput, nOutput, svcVars>>

\* httpAdapter(currentConfig) resolves with a response after connecting to
\* addr: one turn of the while loop, up to the next await
HttpReply(response) ==
  LET o == [obs EXCEPT !.responses = @ + 1,
                       !.redirects = IF IsRedirect(response) THEN @ + 1 ELSE @,
                       !.lastResponse = response,
                       !.priorRequest = obs.lastRequest]
      f1 == [fetch EXCEPT !.redirectCount = @ + 1]
  IN /\ pc = "http"
     /\ \E addr \in ConnectAddrs(fetch.currentConfig.url) :
          connected' = [address |-> addr, validated |-> obs.lastValidation.address]
     /\ IF IsRedirect(response)
        THEN IF ExceedsLimit(f1.redirectCount, fetch.maxRedirects)
             THEN /\ pc' = "thrown"
                  /\ outcome' = Threw(MaxRedirectsError(fetch.maxRedirects))
                  /\ fetch' = f1
                  /\ obs' = o
                  /\ UNCHANGED <<validating, config>>
             \* redirectUrl = new URL(location, currentUrl).toString()
             ELSE \E redirect \in {ResolveUrl(response.location,
                                                RedirectBase(fetch.currentUrl, config.url))} :
                    IF ~redirect.ok
                    THEN /\ pc' = "thrown"
                         /\ outcome' = Threw(UrlTypeError(response.location))
                         /\ fetch' = f1
                         /\ obs' = o
                         /\ UNCHANGED <<validating, config>>
                    ELSE BeginValidation(caller, config, f1, o,
                                         RedirectValidationArg(redirect.href,
                                                               fetch.currentUrl),
                                         redirect.href, response.status)
        ELSE /\ IF StatusRejected(config.validateStatus, response.status)
                THEN /\ pc' = "thrown"
                     /\ outcome' = [kind |-> "error", error |-> StatusError(response.status),
                                    response |-> response, config |-> config]
                ELSE /\ pc' = "returned"
                     /\ outcome' = Returned(response)
             /\ obs' = o
             /\ UNCHANGED <<fetch, validating, config>>
     /\ UNCHANGED <<rules, caller, nInput, nOutput, svcVars>>

\* httpAdapter rejects (connection refused, timeout, unsupported protocol,
\* its own lookup failed): the adapter does not catch it
HttpError ==
  /\ pc \in {"http", "rawhttp"}
  /\ pc' = "thrown"
  /\ outcome' = Threw(TransportError)
  /\ UNCHANGED <<rules, caller, config, fetch, validating, obs, connected, nInput, nOutput, svcVars>>

\* no URL: return httpAdapter(config), unmodified
RawReply(response) ==
  /\ pc = "rawhttp"
  /\ pc' = "returned"
  /\ outcome' = Returned(response)
  /\ UNCHANGED <<rules, caller, config, fetch, validating, obs, connected, nInput, nOutput, svcVars>>

Next ==
  \/ \E cfg \in Configs : Fetch(cfg)
  \/ \E urlStr \in ValidateUrls : Validate(urlStr)
  \/ DnsReply
  \/ \E response \in Responses : HttpReply(response)
  \/ HttpError
  \/ \E response \in {r \in Responses : r.status = 200} : RawReply(response)

Spec == Init /\ [][Next]_vars

(***************************************************************************)
(* Fetches whose config carries a timeout (fetchOne: timeout:              *)
(* HTTP_TIMEOUT_MS).  The adapter copies the config into currentConfig, so *)
(* the raw transport arms its timer for every request it is given; the     *)
(* timer is the only one there is: validateUrlOrThrow awaits dns.lookup    *)
(* without any.                                                            *)
(***************************************************************************)
\* what the raw transport rejects with when its timer fires
TimeoutError == Err("AxiosError", "timeout of ${timeout}ms exceeded", <<>>, Null, NotAUrl, 0)

\* the timer of a pending httpAdapter call fires
HttpTimeout ==
  /\ pc \in {"http", "rawhttp"}
  /\ pc' = "thrown"
  /\ outcome' = Threw(TimeoutError)
  /\ UNCHANGED <<rules, caller, config, fetch, validating, obs, connected, nInput, nOutput,
                 svcVars>>

NextTimed ==
  \/ Next
  \/ HttpTimeout

\* a timer that is armed fires unless the call it guards settles first
SpecTimed == Init /\ [][NextTimed]_vars /\ WF_vars(HttpTimeout)

(***************************************************************************)
(* Fetches whose awaits all settle: every dns.lookup resolves or rejects,  *)
(* and every call of the raw transport resolves or rejects.                *)
(***************************************************************************)
\* the fetches made: limits 0, 2 and the one of the rules, and one without
\* a URL
AnsweredConfigs ==
  {Config(Url("http:", <<"8", ".", "8", ".", "8", ".", "8">>, "/"), NoUrl, "POST", MaxConfigRedirects, "2xx"),
   Config(Url("http:", HostA, "/"), NoUrl, "GET", 0, "none"),
   Config(Url("http:", HostA, "/"), NoUrl, "GET", Undefined, "none"),
   Config(NoUrl, NoUrl, "GET", Undefined, "none")}

\* the responses given: redirects that make a cycle, a redirect to a
\* blocked address, and final responses
AnsweredResponses ==
  {Response(302, Url("http:", HostA, "/x")),
   Response(302, Url("http:", <<"8", ".", "8", ".", "8", ".", "8">>, "/")),
   Response(307, Url("http:", MetadataV4, "/")),
   Response(200, NotAUrl),
   Response(404, NotAUrl)}

\* a pending httpAdapter call settles
TransportSettles ==
  \/ HttpError
  \/ \E response \in {Response(200, NotAUrl)} : RawReply(response)
  \/ \E response \in AnsweredResponses : HttpReply(response)

NextAnswered ==
  \/ \E cfg \in AnsweredConfigs : Fetch(cfg)
  \/ DnsReply
  \/ \E response \in AnsweredResponses : HttpReply(response)
  \/ HttpError
  \/ \E response \in {Response(200, NotAUrl)} : RawReply(response)

SpecAnswered ==
  Init /\ [][NextAnswered]_vars /\ WF_vars(DnsReply) /\ WF_vars(TransportSettles)

(***************************************************************************)
(* normalizeIPv4 on the four spellings of an address                       *)
(***************************************************************************)
OctetSamples == {0, 1, 8, 10, 127, 255}

InitNormalize ==
  /\ rules = securityRulesConfig
  /\ pc = "idle"
  /\ caller = "none"
  /\ config = NoConfig
  /\ fetch = NoFetch
  /\ validating = NotValidating
  /\ outcome = Pending
  /\ obs = NoObs
  /\ connected = NoConnection
  /\ nInput \in [1..4 -> OctetSamples]
  /\ nOutput = <<>>
  /\ ServiceIdle

\* normalizeIPv4 applied to the dotted, decimal, hexadecimal and octal
\* spelling of the address nInput
Normalize ==
  /\ nOutput = <<>>
  /\ nOutput' = [dotted |-> normalizeIPv4(DottedForm(nInput)),
                 decimal |-> normalizeIPv4(DecimalForm(nInput)),
                 hex |-> normalizeIPv4(HexForm(nInput)),
                 octal |-> normalizeIPv4(OctalForm(nInput))]
  /\ UNCHANGED <<rules, pc, caller, config, fetch, validating, outcome, obs, connected,
                 nInput, svcVars>>

SpecNormalize == InitNormalize /\ [][Normalize]_vars

(***************************************************************************)
(* normalizeIPv4 on texts: dotted texts of one to five segments, and texts *)
(* without a dot                                                           *)
(***************************************************************************)
TextSegments == {<<"0">>, <<"1">>, <<"0", "1", "0">>, <<"2", "5", "6">>, <<"a">>, <<>>}

MaxSegments == 5

NormalizeTexts ==
  UNION {{Join(segs, ".") : segs \in [1..n -> TextSegments]} : n \in 1..MaxSegments}
    \cup {<<"0", "x", "z", "z">>, <<"0", "a", "b", "c">>, <<"0", "x", "7", "f", "0", "0", "0", "0", "0", "1">>, <<"2", "1", "3", "0", "7", "0", "6", "4", "3", "3">>, <<"0", "1", "7", "7", "0", "0", "0", "0", "0", "0", "0", "1">>, <<"a", "b", "c">>, <<"6", "6", "0", "5", "1">>}

InitNormalizeText ==
  /\ rules = securityRulesConfig
  /\ pc = "idle"
  /\ caller = "none"
  /\ config = NoConfig
  /\ fetch = NoFetch
  /\ validating = NotValidating
  /\ outcome = Pending
  /\ obs = NoObs
  /\ connected = NoConnection
  /\ nInput \in NormalizeTexts
  /\ nOutput = <<>>
  /\ ServiceIdle

\* normalizeIPv4 applied to the text nInput
NormalizeText ==
  /\ nOutput = <<>>
  /\ nOutput' = [normalized |-> normalizeIPv4(nInput)]
  /\ UNCHANGED <<rules, pc, caller, config, fetch, validating, outcome, obs, connected,
                 nInput, svcVars>>

\* normalizeIPv4 applied to the canonical form it has returned
NormalizeResult ==
  /\ nOutput # <<>>
  /\ DOMAIN nOutput = {"normalized"}
  /\ nOutput.normalized # Null
  /\ nOutput' = [normalized |-> nOutput.normalized,
                 again |-> normalizeIPv4(nOutput.normalized)]
  /\ UNCHANGED <<rules, pc, caller, config, fetch, validating, outcome, obs, connected,
                 nInput, svcVars>>

NextNormalizeText ==
  \/ NormalizeText
  \/ NormalizeResult

SpecNormalizeText == InitNormalizeText /\ [][NextNormalizeText]_vars

(***************************************************************************)
(* isIpv4InCidr on dotted addresses and networks                           *)
(***************************************************************************)
CidrPrefixes == {0, 8, 12, 16, 32}

\* addresses below, at and above the edges of the /8, /12 and /16 networks,
\* on both sides of 128.0.0.0
CidrAddresses ==
  {<<a, b, c, d>> : a \in {0, 10, 128, 172, 255}, b \in {0, 15, 16, 31, 32, 255},
                    c \in {0, 255}, d \in {0, 1, 255}}

CidrNetworks ==
  {<<172, 16, 0, 0>>, <<172, 31, 255, 255>>, <<10, 0, 0, 0>>, <<128, 0, 0, 0>>,
   <<255, 255, 255, 255>>, <<0, 0, 0, 0>>, <<0, 0, 0, 1>>}

\* the text network/prefix
CidrText(network, prefix) == DottedForm(network) \o <<"/">> \o NatToStr(prefix)

InitCidr ==
  /\ rules = securityRulesConfig
  /\ pc = "idle"
  /\ caller = "none"
  /\ config = NoConfig
  /\ fetch = NoFetch
  /\ validating = NotValidating
  /\ outcome = Pending
  /\ obs = NoObs
  /\ connected = NoConnection
  /\ nInput \in [ip : CidrAddresses, network : CidrNetworks, prefix : CidrPrefixes]
  /\ nOutput = <<>>
  /\ ServiceIdle

\* isIpv4InCidr applied to the address and the CIDR text of nInput
InCidr ==
  /\ nOutput = <<>>
  /\ nOutput' = [member |-> isIpv4InCidr(DottedForm(nInput.ip),
                                         CidrText(nInput.network, nInput.prefix))]
  /\ UNCHANGED <<rules, pc, caller, config, fetch, validating, outcome, obs, connected,
                 nInput, svcVars>>

SpecCidr == InitCidr /\ [][InCidr]_vars

(***************************************************************************)
(* isIPv6InCidr on address texts and networks                              *)
(***************************************************************************)
\* well-formed addresses: eight groups or one "::", in either letter case
Cidr6Addresses ==
  {<<":", ":", "1">>, <<":", ":", "2">>, <<":", ":">>, <<"1", ":", ":">>, <<"f", "e", "8", "0", ":", ":", "1">>, <<"f", "e", "b", "f", ":", ":", "1">>, <<"f", "e", "c", "0", ":", ":", "1">>, <<"F", "E", "8", "0", ":", ":", "1">>,
   <<"f", "c", "0", "0", ":", ":", "1">>, <<"f", "d", "0", "0", ":", ":", "1">>, <<"f", "e", "0", "0", ":", ":", "1">>, <<"F", "D", "0", "0", ":", ":", "1">>, <<"2", "0", "0", "1", ":", "d", "b", "8", ":", ":", "1">>,
   <<"2", "0", "0", "1", ":", "d", "b", "8", ":", "0", ":", "0", ":", "0", ":", "0", ":", "0", ":", "1">>, <<"2", "0", "0", "1", ":", "d", "b", "8", ":", "0", ":", "0", ":", "8", "0", "0", "0", ":", "0", ":", "0", ":", "1">>, <<"0", ":", "0", ":", "0", ":", "0", ":", "0", ":", "0", ":", "0", ":", "1">>,
   <<"1", ":", "2", ":", "3", ":", "4", ":", "5", ":", "6", ":", "7", ":", ":">>, <<"f", "f", "f", "f", ":", "f", "f", "f", "f", ":", "f", "f", "f", "f", ":", "f", "f", "f", "f", ":", "f", "f", "f", "f", ":", "f", "f", "f", "f", ":", "f", "f", "f", "f", ":", "f", "f", "f", "f">>}

\* texts that are no IPv6 address
Cidr6Malformed == {<<"i", "n", "v", "a", "l", "i", "d">>, <<"1", ".", "2", ".", "3", ".", "4">>, <<"1", "0", ".", "0", ".", "0", ".", "0">>, <<"g", "g", "g", "g", ":", ":", "1">>, <<"1", ":", "2", ":", "3">>, <<>>}

Cidr6Networks ==
  {<<":", ":", "1">>, <<":", ":">>, <<"f", "e", "8", "0", ":", ":">>, <<"f", "c", "0", "0", ":", ":">>, <<"2", "0", "0", "1", ":", "d", "b", "8", ":", ":">>, <<"0", ":", "0", ":", "0", ":", "0", ":", "0", ":", "0", ":", "0", ":", "1">>,
   <<"f", "f", "f", "f", ":", "f", "f", "f", "f", ":", "f", "f", "f", "f", ":", "f", "f", "f", "f", ":", "f", "f", "f", "f", ":", "f", "f", "f", "f", ":", "f", "f", "f", "f", ":", "f", "f", "f", "f">>}

Cidr6Prefixes == {0, 1, 7, 8, 10, 15, 16, 17, 32, 64, 65, 127, 128}

InitCidr6 ==
  /\ rules = securityRulesConfig
  /\ pc = "idle"
  /\ caller = "none"
  /\ config = NoConfig
  /\ fetch = NoFetch
  /\ validating = NotValidating
  /\ outcome = Pending
  /\ obs = NoObs
  /\ connected = NoConnection
  /\ nInput \in [ip : Cidr6Addresses \cup Cidr6Malformed,
                 network : Cidr6Networks \cup Cidr6Malformed,
                 prefix : Cidr6Prefixes]
  /\ nOutput = <<>>
  /\ ServiceIdle

\* isIPv6InCidr applied to the address and the CIDR text of nInput
InCidr6 ==
  /\ nOutput = <<>>
  /\ nOutput' = [member |-> isIPv6InCidr(nInput.ip,
                                         nInput.network \o <<"/">> \o NatToStr(nInput.prefix))]
  /\ UNCHANGED <<rules, pc, caller, config, fetch, validating, outcome, obs, connected,
                 nInput, svcVars>>

SpecCidr6 == InitCidr6 /\ [][InCidr6]_vars

(***************************************************************************)
(* UrlFetcherService: fetchOne and fetchMany.  Every fetchOne call runs    *)
(* the adapter with locals of its own (maxRedirects, currentUrl,           *)
(* currentConfig, redirectCount are declared inside securityAxiosAdapter); *)
(* a member is the state of one call, with the answers it was given.       *)
(***************************************************************************)
\* MAX_REDIRECTS of src/common/constants
MAX_REDIRECTS == 5

MaxBatch == 2

\* the error of a UrlFetchResult: null, or the message of what was caught
NullError == [isNull |-> TRUE, message |-> NoError]

\* error.message, kept as the error it is the message of
Message(e) == [isNull |-> FALSE, message |-> e]

\* finalUrl: null
NullUrl == [scheme |-> "null", host |-> <<>>, path |-> ""]

\* a UrlFetchResult (statusCode 0 stands for null, Null for a null
\* contentType or content); settled tells that the promise of the call has
\* resolved
NoResult ==
  [url |-> NoUrl, finalUrl |-> NullUrl, statusCode |-> 0, contentType |-> Null,
   content |-> Null, error |-> NullError, settled |-> FALSE]

\* the config of fetchOne as a mutant: without validateStatus: () => true
\* the default of axios applies, which accepts 2xx only
FetchOneConfig_DefaultStatus(url) == Config(url, NoUrl, "GET", MAX_REDIRECTS, "2xx")

\* the config secureHttpClient.get(url, {...}) hands to the adapter
FetchOneConfig(url) == Config(url, NoUrl, "GET", MAX_REDIRECTS, "any")

\* fetchOne(url) before anything has run
NewMember(url) ==
  [pc |-> "start", url |-> url,
   f |-> [NoFetch EXCEPT !.maxRedirects = MAX_REDIRECTS, !.currentUrl = url],
   validating |-> NotValidating, result |-> NoResult, trace |-> <<>>]

\* the catch of fetchOne: {url, finalUrl: null, statusCode: null, ..., error: error.message}
MemberFailed(m, e) ==
  [m EXCEPT !.pc = "done", !.validating = NotValidating,
            !.result = [url |-> m.url, finalUrl |-> NullUrl, statusCode |-> 0,
                        contentType |-> Null, content |-> Null,
                        error |-> Message(e), settled |-> TRUE]]

\* response.request.res.responseUrl for the response httpAdapter gave to
\* request: only the redirect-following transport sets it, and httpAdapter
\* takes the plain http/https transport when maxRedirects is 0, so that it
\* is undefined (NoUrl) for every request of the adapter
ResponseUrl(request) == IF request.maxRedirects = 0 THEN NoUrl ELSE request.url

\* responseUrl ? responseUrl : url
FinalUrl(responseUrl, url) == IF responseUrl # NoUrl THEN responseUrl ELSE url

\* the return of fetchOne: {url, finalUrl, statusCode: response.status,
\* contentType: headers['content-type'] ?? null, content, error: null}
MemberSucceeded(m, response) ==
  [m EXCEPT !.pc = "done",
            !.result = [url |-> m.url,
                        finalUrl |-> FinalUrl(ResponseUrl(m.f.currentConfig), m.url),
                        statusCode |-> response.status,
                        contentType |-> response.contentType,
                        content |-> response.data,
                        error |-> NullError, settled |-> TRUE]]

\* the adapter goes on after validateUrlOrThrow has resolved: the first
\* request (st = 0) or the request of the next hop
MemberRequest(m, target, st) ==
  [m EXCEPT !.pc = "http", !.validating = NotValidating,
            !.f = IF st = 0
                  THEN [@ EXCEPT !.redirectCount = 0,
                                 !.currentConfig = [FetchOneConfig(m.url) EXCEPT
                                                      !.url = target, !.maxRedirects = 0]]
                  ELSE [@ EXCEPT !.currentUrl = target,
                                 !.currentConfig = [@ EXCEPT !.url = target,
                                                             !.method = NextMethod(st, @)]]]

\* validateUrlOrThrow has thrown or resolved with verdict v
MemberSettled(m, v, target, st) ==
  IF v.next = "throw" THEN MemberFailed(m, v.error) ELSE MemberRequest(m, target, st)

\* validateUrlOrThrow(urlStr) has run up to its await with verdict v
MemberAfterSync(m, v, urlStr, target, st) ==
  IF v.next = "lookup"
  THEN [m EXCEPT !.pc = "lookup",
                 !.validating = [url |-> urlStr, host |-> v.host, target |-> target,
                                 status |-> st]]
  ELSE MemberSettled(m, v, target, st)

\* await ssrfPolicy.validateUrlOrThrow(urlStr) in the adapter of member m
MemberValidate(m, urlStr, target, st) ==
  MemberAfterSync(m, validateUrlOrThrow_Sync(urlStr), urlStr, target, st)

\* the redirect target is resolved and validated
MemberRedirect(m, redirect, location, st) ==
  IF ~redirect.ok THEN MemberFailed(m, UrlTypeError(location))
  ELSE MemberValidate(m, RedirectValidationArg(redirect.href, m.f.currentUrl),
                      redirect.href, st)

\* one turn of the while loop of the adapter of member m
MemberOnResponse(m, response) ==
  IF IsRedirect(response)
  THEN IF ExceedsLimit(m.f.redirectCount + 1, m.f.maxRedirects)
       THEN MemberFailed([m EXCEPT !.f.redirectCount = @ + 1],
                         MaxRedirectsError(m.f.maxRedirects))
       ELSE MemberRedirect([m EXCEPT !.f.redirectCount = @ + 1],
                           ResolveUrl(response.location, RedirectBase(m.f.currentUrl, m.url)),
                           response.location, response.status)
  ELSE IF StatusRejected(FetchOneConfig(m.url).validateStatus, response.status)
       THEN MemberFailed(m, StatusError(response.status))
       ELSE MemberSucceeded(m, response)

\* what member m does when it is given the answer ev: the start of the call,
\* the answer of dns.lookup, a response, or a rejection of the transport
MemberStep(m, ev) ==
  CASE ev.kind = "start" -> MemberValidate(m, m.url, m.url, 0)
    [] ev.kind = "dns" ->
         MemberSettled(m, validateUrlOrThrow_Resume(m.validating.host, ev.answer),
                       m.validating.target, m.validating.status)
    [] ev.kind = "http" -> MemberOnResponse(m, ev.response)
    [] OTHER -> MemberFailed(m, TransportError)

Event(kind, answer, response) == [kind |-> kind, answer |-> answer, response |-> response]

\* member m after the answer ev, which is added to the answers it was given
Answered(m, ev) == [MemberStep(m, ev) EXCEPT !.trace = Append(m.trace, ev)]

\* the locals of the call i are replaced, as a mutant: redirectCount is one
\* counter shared by all calls
MemberUpdate_SharedCount(ms, i, m) ==
  [j \in DOMAIN ms |-> IF j = i THEN m
                        ELSE [ms[j] EXCEPT !.f.redirectCount = m.f.redirectCount]]

\* the locals of the call i are replaced: they belong to that call alone
MemberUpdate(ms, i, m) == [ms EXCEPT ![i] = m]

\* Promise.all as a mutant: it settles with the first member that does
AllSettled_First(ms) == \E i \in DOMAIN ms : ms[i].pc = "done"

\* Promise.all(promises) resolves once every promise has
AllSettled(ms) == \A i \in DOMAIN ms : ms[i].pc = "done"

BatchUrls ==
  {Url("http:", HostA, "/"), Url("http:", LoopbackV4, "/"), NotAUrl}

\* the arrays of at most MaxBatch urls
BatchInputs == UNION {[1..n -> BatchUrls] : n \in 0..MaxBatch}

\* a response with its content-type header (Null when it has none) and its
\* body
BatchResponse(status, location, contentType, data) ==
  [status |-> status, location |-> location, hasLocation |-> location # NotAUrl,
   contentType |-> contentType, data |-> data]

BatchResponses ==
  {BatchResponse(200, NotAUrl, <<"t", "e", "x", "t", "/", "h", "t", "m", "l">>, <<"o", "k">>),
   BatchResponse(404, NotAUrl, Null, <<>>),
   BatchResponse(302, Url("http:", HostA, "/x"), Null, <<>>),
   BatchResponse(307, Url("http:", MetadataV4, "/"), <<"t", "e", "x", "t", "/", "h", "t", "m", "l">>, <<>>)}

InitService ==
  /\ rules = securityRulesConfig
  /\ pc = "idle"
  /\ caller = "none"
  /\ config = NoConfig
  /\ fetch = NoFetch
  /\ validating = NotValidating
  /\ outcome = Pending
  /\ obs = NoObs
  /\ connected = NoConnection
  /\ nInput = <<0, 0, 0, 0>>
  /\ nOutput = <<>>
  /\ ServiceIdle

\* fetchMany(urls) up to await Promise.all(promises): urls.map starts the
\* calls, which all stand before their first step
FetchMany(urls) ==
  /\ batch.pc = "idle"
  /\ batch' = [pc |-> "running", urls |-> urls, results |-> <<>>]
  /\ members' = [i \in DOMAIN urls |-> NewMember(urls[i])]
  /\ UNCHANGED <<rules, pc, caller, config, fetch, validating, outcome, obs, connected,
                 nInput, nOutput, calls, store, now, gets>>

\* the answers a member may be given
Events ==
  {Event("start", Null, NoResponse), Event("error", Null, NoResponse)}
    \cup {Event("dns", a, NoResponse) : a \in {PublicV4, LoopbackV4, Failure}}
    \cup {Event("http", Null, r) : r \in BatchResponses}

\* fetchOne of one member is given an answer and runs up to its next await
MemberRuns ==
  /\ batch.pc = "running"
  /\ \E i \in DOMAIN members, ev \in Events :
       /\ members[i].pc = (CASE ev.kind = "start" -> "start"
                              [] ev.kind = "dns" -> "lookup"
                              [] OTHER -> "http")
       /\ ev.kind = "dns" => ev.answer \in DnsAnswers(members[i].validating.host)
       /\ members' = MemberUpdate(members, i, Answered(members[i], ev))
  /\ UNCHANGED <<rules, pc, caller, config, fetch, validating, outcome, obs, connected,
                 nInput, nOutput, batch, calls, store, now, gets>>

\* await Promise.all(promises) resolves and fetchMany returns the results
FetchManyReturns ==
  /\ batch.pc = "running"
  /\ AllSettled(members)
  /\ batch' = [batch EXCEPT !.pc = "returned",
                            !.results = [i \in DOMAIN members |-> members[i].result]]
  /\ UNCHANGED <<rules, pc, caller, config, fetch, validating, outcome, obs, connected,
                 nInput, nOutput, members, calls, store, now, gets>>

NextBatch ==
  \/ \E urls \in BatchInputs : FetchMany(urls)
  \/ MemberRuns
  \/ FetchManyReturns

SpecBatch == InitService /\ [][NextBatch]_vars

(***************************************************************************)
(* POST /requests/create: SsrfGuard.canActivate, the ValidationPipe on     *)
(* CreateRequestDto, RequestsController.createRequest and                  *)
(* RequestsService.create with its store.  A call is one HTTP request.     *)
(***************************************************************************)
MaxCalls == 2

\* how far Date.now() advances
MaxNow == 2

\* getOne calls
MaxGets == 2

\* an element of urls that is no string
NonString == [scheme |-> "number", host |-> <<>>, path |-> ""]

\* the number 0 and the string ''
Zero == [scheme |-> "number", host |-> <<>>, path |-> "0"]
EmptyString == [scheme |-> "", host |-> <<>>, path |-> ""]

\* typeof x === 'string'
IsString(x) == x.scheme # "number"

\* request.body: kind is "nobody" (the body is null or undefined),
\* "undefined" (no urls field), "null" (urls: null), "array" (urls is the
\* array items) or "scalar" (urls is the one value that is no array)
Body(kind, items, value) == [kind |-> kind, items |-> items, value |-> value]

ArrayBody(items) == Body("array", items, NonString)
ScalarBody(value) == Body("scalar", <<>>, value)

RequestBodies ==
  {Body(kind, <<>>, NonString) : kind \in {"nobody", "undefined", "null"}}
    \cup {ScalarBody(value) : value \in {Url("http:", HostA, "/"), EmptyString, Zero, NonString}}
    \cup {ArrayBody(<<>>),
          ArrayBody(<<Url("http:", HostA, "/")>>),
          ArrayBody(<<Url("http:", HostA, "/"), Url("http:", HostA, "/x")>>),
          ArrayBody(<<Url("http:", HostA, "/"), Url("http:", LoopbackV4, "/")>>),
          ArrayBody(<<Url("http:", LoopbackV4, "/"), Url("http:", HostA, "/")>>),
          ArrayBody(<<NonString, Url("http:", HostA, "/")>>),
          ArrayBody(<<NonString>>)}

\* !urls as a mutant: only undefined and null count as no urls
NoUrls_Nullish(body) == body.kind \in {"nobody", "undefined", "null"}

\* !urls for urls = request.body?.urls: undefined, null, '', 0 (and false,
\* NaN) are falsy, every array and every other value is not
NoUrls(body) ==
  \/ body.kind \in {"nobody", "undefined", "null"}
  \/ body.kind = "scalar" /\ body.value \in {EmptyString, Zero}

\* Array.isArray(urls) ? urls : [urls]
ListOfUrls(body) ==
  CASE body.kind = "array" -> body.items
    [] body.kind = "scalar" -> <<body.value>>
    [] OTHER -> <<>>

\* new ForbiddenException('No URLs provided')
NoUrlsError == Err("ForbiddenException", "No URLs provided", <<>>, Null, NotAUrl, 0)

\* the BadRequestException of the ValidationPipe
BadRequestError == Err("BadRequestException", "Bad Request", <<>>, Null, NotAUrl, 0)

\* `req_${Date.now()}`
RequestId(t) == <<"req_", t>>

NoId == <<>>

\* the index of the first string of urls at or after k, Len(urls) + 1 if none:
\* the loop of canActivate passes over what is no string
NextString(urls, k) ==
  IF \E j \in k..Len(urls) : IsString(urls[j])
  THEN CHOOSE j \in k..Len(urls) :
         IsString(urls[j]) /\ \A h \in k..(j - 1) : ~IsString(urls[h])
  ELSE Len(urls) + 1

\* a request as it arrives: canActivate stands at the first string of
\* listOfUrls; hasUrls tells that urls is not falsy
NewCall(body) ==
  [pc |-> "guard", body |-> body, hasUrls |-> ~NoUrls(body), urls |-> ListOfUrls(body),
   k |-> NextString(ListOfUrls(body), 1), host |-> <<>>, checked |-> <<>>,
   error |-> NoError, status |-> 0, id |-> NoId, createdAt |-> 0,
   results |-> <<>>, fetched |-> FALSE]

\* the exception e leaves the guard or the pipe: the response has its status
Refused(c, e, status) == [c EXCEPT !.pc = "rejected", !.error = e, !.status = status]

\* validateUrlOrThrow(rawUrl) of the guard has come to verdict v
CallAfter(c, v) ==
  CASE v.next = "lookup" -> [c EXCEPT !.pc = "lookup", !.host = v.host]
    [] v.next = "throw" ->
         Refused([c EXCEPT !.checked = Append(@, [url |-> c.urls[c.k], ok |-> FALSE])],
                 v.error, 403)
    [] OTHER ->
         [c EXCEPT !.pc = "guard", !.k = NextString(c.urls, c.k + 1),
                   !.checked = Append(@, [url |-> c.urls[c.k], ok |-> TRUE])]

\* CreateRequestDto: @IsArray @ArrayNotEmpty @IsString({each: true})
DtoRejects(body) ==
  \/ body.kind # "array"
  \/ body.items = <<>>
  \/ \E j \in DOMAIN body.items : ~IsString(body.items[j])

\* @UseGuards(SsrfGuard) as a mutant: the route has no guard
Guarded_Off == FALSE

\* @UseGuards(SsrfGuard) on createRequest
Guarded == TRUE

\* the results fetchMany(urls) may resolve with: one per url, in order, each
\* a response or a failure
FetchManyResults(urls) ==
  [DOMAIN urls -> {200, 0}]

\* store.set(id, record)
StoreSet(st, id, record) ==
  [x \in DOMAIN st \cup {id} |-> IF x = id THEN record ELSE st[x]]

\* a request arrives; canActivate runs up to its first await
PostOf(bodies) ==
  /\ Len(calls) < MaxCalls
  /\ \E body \in bodies :
       calls' = Append(calls,
                       IF ~Guarded THEN [NewCall(body) EXCEPT !.k = Len(ListOfUrls(body)) + 1]
                       ELSE IF NoUrls(body) THEN Refused(NewCall(body), NoUrlsError, 403)
                       ELSE NewCall(body))
  /\ UNCHANGED <<rules, pc, caller, config, fetch, validating, outcome, obs, connected,
                 nInput, nOutput, batch, members, store, now, gets>>

Post == PostOf(RequestBodies)

\* await this.ssrfPolicy.validateUrlOrThrow(rawUrl) for the next string of
\* urls, up to the await of dns.lookup
GuardValidate ==
  \E i \in DOMAIN calls :
    /\ calls[i].pc = "guard"
    /\ calls[i].k <= Len(calls[i].urls)
    /\ calls' = [calls EXCEPT
                   ![i] = CallAfter(@, validateUrlOrThrow_Sync(calls[i].urls[calls[i].k]))]
    /\ UNCHANGED <<rules, pc, caller, config, fetch, validating, outcome, obs, connected,
                   nInput, nOutput, batch, members, store, now, gets>>

\* dns.lookup settles for the guard of one request
GuardDns ==
  \E i \in DOMAIN calls :
    /\ calls[i].pc = "lookup"
    /\ \E answer \in DnsAnswers(calls[i].host) :
         calls' = [calls EXCEPT
                     ![i] = CallAfter(@, validateUrlOrThrow_Resume(calls[i].host, answer))]
    /\ UNCHANGED <<rules, pc, caller, config, fetch, validating, outcome, obs, connected,
                   nInput, nOutput, batch, members, store, now, gets>>

\* canActivate returns true; the pipe validates the body; createRequest
\* calls create(urls), which runs up to await fetchMany(urls)
Create ==
  \E i \in DOMAIN calls :
    /\ calls[i].pc = "guard"
    /\ calls[i].k > Len(calls[i].urls)
    /\ calls' = [calls EXCEPT
                   ![i] = IF DtoRejects(@.body) THEN Refused(@, BadRequestError, 400)
                          ELSE [@ EXCEPT !.pc = "fetching", !.id = RequestId(now),
                                         !.createdAt = now, !.fetched = TRUE]]
    /\ UNCHANGED <<rules, pc, caller, config, fetch, validating, outcome, obs, connected,
                   nInput, nOutput, batch, members, store, now, gets>>

\* fetchMany resolves: the record is stored and {id, createdAt, count} is
\* returned
CreateReturns ==
  \E i \in DOMAIN calls :
    /\ calls[i].pc = "fetching"
    /\ \E results \in FetchManyResults(calls[i].urls) :
         /\ calls' = [calls EXCEPT ![i] = [@ EXCEPT !.pc = "created", !.status = 201,
                                                      !.results = results]]
         /\ store' = StoreSet(store, calls[i].id,
                              [id |-> calls[i].id, createdAt |-> calls[i].createdAt,
                               urls |-> calls[i].urls, results |-> results])
    /\ UNCHANGED <<rules, pc, caller, config, fetch, validating, outcome, obs, connected,
                   nInput, nOutput, batch, members, now, gets>>

\* a millisecond passes
Tick ==
  /\ now < MaxNow
  /\ now' = now + 1
  /\ UNCHANGED <<rules, pc, caller, config, fetch, validating, outcome, obs, connected,
                 nInput, nOutput, batch, members, calls, store, gets>>

\* new NotFoundException(`Request not ${id} found`)
NotFoundError(id) ==
  Err("NotFoundException", "Request not ${id} found", <<>>, Null, NotAUrl, id[2])

NoRecord == [id |-> NoId, createdAt |-> 0, urls |-> <<>>, results |-> <<>>]

\* the ids asked for: those create can return, and one it cannot
GetIds == {RequestId(t) : t \in 0..(MaxNow + 1)}

\* getOne(id): store.get(id), the record or the NotFoundException;
\* returnedTo are the create calls that had returned the id before
GetOne ==
  /\ Len(gets) < MaxGets
  /\ \E id \in GetIds :
       gets' = Append(gets,
                      [id |-> id,
                       returnedTo |-> {i \in DOMAIN calls :
                                         calls[i].pc = "created" /\ calls[i].id = id},
                       found |-> id \in DOMAIN store,
                       record |-> IF id \in DOMAIN store THEN store[id] ELSE NoRecord,
                       error |-> IF id \in DOMAIN store THEN NoError
                                 ELSE NotFoundError(id)])
  /\ UNCHANGED <<rules, pc, caller, config, fetch, validating, outcome, obs, connected,
                 nInput, nOutput, batch, members, calls, store, now>>

NextRequests ==
  \/ Post
  \/ GuardValidate
  \/ GuardDns
  \/ Create
  \/ CreateReturns
  \/ Tick

SpecRequests == InitService /\ [][NextRequests]_vars

\* the requests made while records are read
StoreBodies ==
  {ArrayBody(<<Url("http:", <<"8", ".", "8", ".", "8", ".", "8">>, "/")>>),
   ArrayBody(<<Url("http:", <<"8", ".", "8", ".", "8", ".", "8">>, "/"), Url("http:", HostA, "/x")>>)}

PostStored == PostOf(StoreBodies)

\* POST /requests/create and GET /requests/:id
NextStore ==
  \/ PostStored
  \/ GuardValidate
  \/ GuardDns
  \/ Create
  \/ CreateReturns
  \/ Tick
  \/ GetOne

SpecStore == InitService /\ [][NextStore]_vars

(***************************************************************************)
(* The legacy check of common/ssrf.util: ensurePublicHttpUrl               *)
(***************************************************************************)
PRIVATE_IPV4_RANGES ==
  <<[from |-> <<"1", "0", ".", "0", ".", "0", ".", "0">>, to |-> <<"1", "0", ".", "2", "5", "5", ".", "2", "5", "5", ".", "2", "5", "5">>],
    [from |-> <<"1", "7", "2", ".", "1", "6", ".", "0", ".", "0">>, to |-> <<"1", "7", "2", ".", "3", "1", ".", "2", "5", "5", ".", "2", "5", "5">>],
    [from |-> <<"1", "9", "2", ".", "1", "6", "8", ".", "0", ".", "0">>, to |-> <<"1", "9", "2", ".", "1", "6", "8", ".", "2", "5", "5", ".", "2", "5", "5">>],
    [from |-> <<"1", "2", "7", ".", "0", ".", "0", ".", "0">>, to |-> <<"1", "2", "7", ".", "2", "5", "5", ".", "2", "5", "5", ".", "2", "5", "5">>],
    [from |-> <<"1", "6", "9", ".", "2", "5", "4", ".", "0", ".", "0">>, to |-> <<"1", "6", "9", ".", "2", "5", "4", ".", "2", "5", "5", ".", "2", "5", "5">>]>>

\* ipv4ToInt(ip): it throws (ok is FALSE) unless ip has four parts that are
\* numbers in 0..255; (a << 24) | (b << 16) | (c << 8) | d is a signed
\* 32-bit integer, negative when a >= 128
ipv4ToInt(ip) ==
  LET parts == NumbersOf(Split(ip, "."))
  IN IF Len(parts) # 4 \/ \E i \in DOMAIN parts : parts[i] < 0 \/ parts[i] > 255
     THEN [ok |-> FALSE, value |-> 0]
     ELSE [ok |-> TRUE,
           value |-> (IF parts[1] >= 128 THEN parts[1] - 256 ELSE parts[1]) * 16777216
                       + parts[2] * 65536 + parts[3] * 256 + parts[4]]

\* the comparison as a mutant: the upper bound is excluded
WithinRange_Exclusive(intIp, fromInt, toInt) == intIp >= fromInt /\ intIp < toInt

\* intIp >= fromInt && intIp <= toInt
WithinRange(intIp, fromInt, toInt) == intIp >= fromInt /\ intIp <= toInt

\* the int of ip lies in the range
InPrivateRange(intIp, range) ==
  WithinRange(intIp.value, ipv4ToInt(range.from).value, ipv4ToInt(range.to).value)

\* isPrivateIpv4(ip): false when ipv4ToInt throws
isPrivateIpv4(ip) ==
  \E intIp \in {ipv4ToInt(ip)} :
    /\ intIp.ok
    /\ \E k \in DOMAIN PRIVATE_IPV4_RANGES : InPrivateRange(intIp, PRIVATE_IPV4_RANGES[k])

LegacyInvalidUrl(rawUrl) == Err("Error", "Invalid URL: ${rawUrl}", <<>>, Null, rawUrl, 0)
LegacyInvalidProtocol(rawUrl) == Err("Error", "Invalid protocol: ${protocol}", <<>>, Null, rawUrl, 0)
LegacyInvalidHostname(host) == Err("Error", "Invalid hostname: ${hostname}", host, Null, NotAUrl, 0)
LegacyLookupFailed(host) == Err("Error", "getaddrinfo ENOTFOUND ${hostname}", host, Null, NotAUrl, 0)
LegacyPrivateIp(address) == Err("Error", "Private IP address: ${address}", <<>>, address, NotAUrl, 0)
LegacyPrivateIpv6(address) ==
  Err("Error", "Private or internal IPv6 address is not allowed: ${address}", <<>>, address,
      NotAUrl, 0)

\* what lookupAsync(hostname) gives: {address, family}, or a rejection
\* (family 0)
LookupAnswer(address, family) == [address |-> address, family |-> family]

\* ensurePublicHttpUrl(rawUrl) when lookupAsync gives answer: the error it
\* throws, NoError when it returns
ensurePublicHttpUrl(rawUrl, parsed, answer) ==
  IF ~parsed.ok THEN LegacyInvalidUrl(rawUrl)
  ELSE IF parsed.protocol \notin {"http:", "https:"} THEN LegacyInvalidProtocol(rawUrl)
  ELSE IF Includes(parsed.hostname, " ") THEN LegacyInvalidHostname(parsed.hostname)
  ELSE IF answer.family = 0 THEN LegacyLookupFailed(parsed.hostname)
  ELSE IF answer.family = 4 /\ isPrivateIpv4(answer.address)
       THEN LegacyPrivateIp(answer.address)
  ELSE IF answer.family = 6
          /\ (answer.address = <<":", ":", "1">> \/ StartsWith(ToLower(answer.address), <<"f", "e", "8", "0", ":">>))
       THEN LegacyPrivateIpv6(answer.address)
  ELSE NoError

\* the octets tried: the bounds of the five ranges and their neighbours
LegacyOctets ==
  {<<a, b, c, d>> : a \in {0, 9, 10, 11, 126, 127, 128, 169, 172, 192, 255},
                    b \in {0, 15, 16, 31, 32, 167, 168, 169, 253, 254, 255},
                    c \in {0, 255}, d \in {0, 255}}

LegacyInputs ==
  {[url |-> Url("http:", HostA, "/"), octets |-> o, answer |-> LookupAnswer(DottedForm(o), 4)] :
     o \in LegacyOctets}
    \cup {[url |-> Url("https:", HostA, "/"), octets |-> <<0, 0, 0, 0>>, answer |-> a] :
            a \in {LookupAnswer(<<":", ":", "1">>, 6), LookupAnswer(<<"F", "E", "8", "0", ":", ":", "1">>, 6),
                    LookupAnswer(<<"2", "0", "0", "1", ":", "d", "b", "8", ":", ":", "1">>, 6), LookupAnswer(<<>>, 0)}}
    \cup {[url |-> u, octets |-> <<8, 8, 8, 8>>, answer |-> LookupAnswer(<<"8", ".", "8", ".", "8", ".", "8">>, 4)] :
            u \in {Url("ftp:", HostA, "/"), NotAUrl}}

InitLegacy ==
  /\ rules = securityRulesConfig
  /\ pc = "idle"
  /\ caller = "none"
  /\ config = NoConfig
  /\ fetch = NoFetch
  /\ validating = NotValidating
  /\ outcome = Pending
  /\ obs = NoObs
  /\ connected = NoConnection
  /\ nInput \in LegacyInputs
  /\ nOutput = <<>>
  /\ ServiceIdle

\* ensurePublicHttpUrl(nInput.url) with the lookup answered by nInput.answer
EnsurePublicHttpUrl ==
  /\ nOutput = <<>>
  /\ nOutput' = [error |-> ensurePublicHttpUrl(nInput.url, ParseUrl(nInput.url), nInput.answer)]
  /\ UNCHANGED <<rules, pc, caller, config, fetch, validating, outcome, obs, connected,
                 nInput, svcVars>>

SpecLegacy == InitLegacy /\ [][EnsurePublicHttpUrl]_vars

(***************************************************************************)
(* Properties                                                              *)
(***************************************************************************)
\* the fetch is one through the adapter that has a URL
FetchWithUrl == caller = "adapter" /\ fetch.currentUrl # NoUrl

\* the last call of validateUrlOrThrow has thrown
Rejected == obs.lastValidation.done /\ ~obs.lastValidation.accepted

\* the last call of validateUrlOrThrow got as far as resolving the host
ReachedResolution ==
  /\ obs.lastValidation.done
  /\ obs.lastValidation.error.text \notin {InvalidUrlError(NotAUrl).text,
                                           HostNotAllowedError(<<>>).text}

\* the effective hop limit of the fetch
HopLimit == IF config.maxRedirects = Undefined THEN rules.maxRedirects ELSE config.maxRedirects

\* C1: the address the raw transport connects to for a hop is the address
\* that the validation before that hop resolved and classified, and it is
\* never an address of the blocked ranges, also when the answer of the
\* transport's own lookup differs from the answer the validation got.
C1_ConnectsToValidatedAddress ==
  connected.address # Null =>
    /\ connected.address = connected.validated
    /\ ~isPrivateIp(connected.address)

\* C2: in a fetch with a URL every transport invocation is for the URL that
\* the validation just before it accepted, every accepted validation is
\* followed by one transport invocation, and a fetch that returns after k
\* followed redirects has made k + 1 validations and k + 1 transport calls.
C2_ValidateThenTransport ==
  FetchWithUrl =>
    /\ obs.transport = obs.validateOk
    /\ pc = "http" => /\ obs.lastValidation.accepted
                      /\ obs.lastValidation.url = obs.lastRequest.url
                      /\ obs.responses = obs.transport - 1
    /\ pc = "returned" => /\ obs.redirects = fetch.redirectCount
                          /\ obs.validate = fetch.redirectCount + 1
                          /\ obs.transport = fetch.redirectCount + 1
                          /\ obs.responses = obs.transport

\* C2 witness: a 302 followed to a second hop that answers 200
C2_Witness ==
  /\ FetchWithUrl
  /\ pc = "returned"
  /\ outcome.response.status = 200
  /\ fetch.redirectCount = 1
  /\ obs.validate = 2
  /\ obs.transport = 2

\* the state of a fetch whose validation was rejected
C3_RejectedState ==
  Rejected =>
    /\ pc = "thrown"
    /\ outcome.kind = "error"
    /\ outcome.error = obs.lastValidation.error
    /\ obs.transport = obs.validateOk
    /\ obs.responses = obs.transport
    /\ obs.validate = 1 => obs.transport = 0

\* C3: when validateUrlOrThrow rejects the URL of a hop, the fetch fails
\* with the very error the policy engine threw, the transport is not
\* invoked for that hop (none at all for the initial URL), and no further
\* validation or transport call is made.
C3_RejectionPropagated ==
  /\ []C3_RejectedState
  /\ [][Rejected => UNCHANGED <<pc, outcome, obs>>]_vars

\* C3 witness: a redirect to the metadata address is rejected at the second
\* validation, after one transport call
C3_Witness ==
  /\ FetchWithUrl
  /\ Rejected
  /\ obs.lastValidation.address = MetadataV4
  /\ outcome.error = PrivateIpError(MetadataV4, MetadataV4)
  /\ obs.validate = 2
  /\ obs.transport = 1

\* C4: a fetch makes at most maxRedirects + 1 transport invocations, and a
\* fetch that received more than maxRedirects redirect responses has failed
\* with the max-redirects error.
C4_HopLimit ==
  caller = "adapter" =>
    /\ HopLimit >= 0
    /\ obs.transport <= HopLimit + 1
    /\ obs.redirects > HopLimit => /\ pc = "thrown"
                                   /\ outcome.kind = "error"
                                   /\ outcome.error = MaxRedirectsError(HopLimit)

\* C4 witness: six redirects under the default limit of five
C4_Witness ==
  /\ caller = "adapter"
  /\ config.maxRedirects = Undefined
  /\ HopLimit = 5
  /\ obs.redirects = 6
  /\ obs.transport = 6
  /\ outcome.error = MaxRedirectsError(5)

\* C5: a URL whose scheme is not among the allowed protocols is rejected
\* with the invalid-scheme reason, before the allowlist check and before
\* any DNS lookup.
C5_SchemeRejectedFirst ==
  (/\ obs.validate > 0
   /\ obs.lastValidation.url.scheme # ""
   /\ obs.lastValidation.url.scheme \notin rules.allowedProtocols)
  => /\ obs.callLookups = 0
     /\ obs.lastValidation.done => /\ ~obs.lastValidation.accepted
                                   /\ obs.lastValidation.error.text = "Invalid scheme"

\* the address a validated URL stands for: the literal between the brackets,
\* or the literal or resolved address that was classified
TargetAddress ==
  LET host == obs.lastValidation.url.host
  IN IF Len(host) > 1 /\ host[1] = "[" THEN ToLower(SubSeq(host, 2, Len(host) - 1))
     ELSE obs.lastValidation.address

\* sample addresses inside and outside the ranges of the default denylist
InDefaultDenylist ==
  {<<"1", "2", "7", ".", "0", ".", "0", ".", "1">>, <<"1", "2", "7", ".", "2", "5", "5", ".", "2", "5", "5", ".", "2", "5", "5">>, <<"1", "0", ".", "0", ".", "0", ".", "1">>, <<"1", "0", ".", "2", "5", "5", ".", "2", "5", "5", ".", "2", "5", "5">>, <<"1", "7", "2", ".", "1", "6", ".", "0", ".", "1">>, <<"1", "7", "2", ".", "3", "1", ".", "2", "5", "5", ".", "2", "5", "5">>, <<"1", "9", "2", ".", "1", "6", "8", ".", "1", ".", "1">>, <<"1", "6", "9", ".", "2", "5", "4", ".", "1", "6", "9", ".", "2", "5", "4">>, <<"2", "2", "4", ".", "0", ".", "0", ".", "1">>, <<"2", "3", "9", ".", "2", "5", "5", ".", "2", "5", "5", ".", "2", "5", "5">>,
   <<":", ":", "1">>, <<"f", "e", "8", "0", ":", ":", "1">>, <<"f", "e", "b", "f", ":", ":", "1">>, <<"f", "c", "0", "0", ":", ":", "1">>, <<"f", "d", "0", "0", ":", ":", "1">>}
OutsideDefaultDenylist == {<<"8", ".", "8", ".", "8", ".", "8">>, PublicV4, <<"1", "2", "8", ".", "0", ".", "0", ".", "1">>, <<"1", "7", "2", ".", "3", "2", ".", "0", ".", "0">>, <<"1", "7", "2", ".", "1", "5", ".", "2", "5", "5", ".", "2", "5", "5">>, <<"1", "9", "2", ".", "1", "6", "9", ".", "0", ".", "0">>, <<"2", "4", "0", ".", "0", ".", "0", ".", "1">>, <<"2", "6", "0", "7", ":", "f", "8", "b", "0", ":", "4", "0", "0", "4", ":", "8", "0", "0", ":", ":", "2", "0", "0", "e">>}

\* C6: under the default denylist a URL whose literal or resolved address
\* lies in a blocked range is rejected with the private-address error that
\* echoes the address, bracketed IPv6 literals included, and a URL whose
\* address is public is accepted.
C6_DefaultDenylist ==
  (rules = securityRulesConfig /\ obs.lastValidation.done) =>
    /\ TargetAddress \in InDefaultDenylist =>
         /\ ~obs.lastValidation.accepted
         /\ obs.lastValidation.error.text = PrivateIpError(Null, <<>>).text
         /\ obs.lastValidation.error.address = TargetAddress
    /\ TargetAddress \in OutsideDefaultDenylist /\ obs.lastValidation.address # Null =>
         obs.lastValidation.accepted

\* the host of the validated URL is an IPv4 or IPv6 literal
LiteralHost ==
  LET host == obs.lastValidation.host
  IN \/ IsStrictIPv4(host)
     \/ Len(host) > 2 /\ host[1] = "[" /\ ParseIPv6(SubSeq(host, 2, Len(host) - 1)).ok

\* the literal host without its brackets
LiteralAddress ==
  LET host == obs.lastValidation.host
  IN IF host[1] = "[" THEN SubSeq(host, 2, Len(host) - 1) ELSE host

\* C7: a validation makes no DNS lookup when the host of the URL is an IPv4
\* or IPv6 literal, which is then the address classified, and exactly one
\* lookup, of the host name, otherwise.
C7_LookupsPerCall ==
  ReachedResolution =>
    IF LiteralHost
    THEN /\ obs.lastValidation.lookups = 0
         /\ obs.lastValidation.address = LiteralAddress
    ELSE /\ obs.lastValidation.lookups = 1
         /\ obs.lookupHost = obs.lastValidation.host

\* C8: every validation of a host name makes its own lookup and its verdict
\* follows from that answer alone, whatever earlier validations accepted.
C8_NoMemoization ==
  (ReachedResolution /\ ~LiteralHost) =>
    /\ obs.lastValidation.lookups = 1
    /\ obs.lookupHost = obs.lastValidation.host
    /\ IF obs.lastAnswer = Failure
       THEN obs.lastValidation.error = DnsFailedError(obs.lastValidation.host)
       ELSE /\ obs.lastValidation.address = obs.lastAnswer
            /\ obs.lastValidation.accepted = ~isPrivateIp(obs.lastAnswer)

\* C8 witness: a host name accepted at the first hop is rejected at the
\* second hop, where it resolves to the loopback address
C8_Witness ==
  /\ FetchWithUrl
  /\ Rejected
  /\ obs.validate = 2
  /\ obs.lastValidation.hostSeenAccepted
  /\ obs.lastValidation.host = HostA
  /\ obs.lastValidation.error = PrivateIpError(LoopbackV4, HostA)

\* C9: an http(s) URL whose host spells an address of a blocked range as a
\* decimal, hexadecimal or octal integer is rejected, and no request for
\* such a URL reaches the transport.
C9_AltEncodingsRejected ==
  /\ (/\ obs.lastValidation.done
      /\ obs.lastValidation.url.scheme \in {"http:", "https:"}
      /\ obs.lastValidation.url.host \in AltEncodedHosts)
     => ~obs.lastValidation.accepted
  /\ obs.lastRequest.url.host \notin AltEncodedHosts

\* C9 witness: a fetch of http://2130706433/ is rejected as 127.0.0.1 before
\* any transport call
C9_Witness ==
  /\ FetchWithUrl
  /\ Rejected
  /\ obs.validate = 1
  /\ obs.transport = 0
  /\ obs.lastValidation.url.host = DecimalForm(<<127, 0, 0, 1>>)
  /\ obs.lastValidation.error = PrivateIpError(LoopbackV4, LoopbackV4)

\* C10: normalizeIPv4 gives the canonical dotted form of the address for
\* its dotted, decimal (0 < n < 2^32), hexadecimal and octal spelling.
C10_SameCanonicalForm ==
  nOutput # <<>> =>
    /\ nOutput.dotted = DottedForm(nInput)
    /\ nInput # <<0, 0, 0, 0>> => nOutput.decimal = DottedForm(nInput)
    /\ nOutput.hex = DottedForm(nInput)
    /\ nOutput.octal = DottedForm(nInput)

\* (a AND mask) = (n AND mask) on unsigned 32-bit values, mask having its top
\* prefix bits set: the halves a1 a2 and a3 a4 are compared
TopBitsEqual(a, n, prefix) ==
  IF prefix = 0 THEN TRUE
  ELSE IF prefix <= 16
  THEN (a[1] * 256 + a[2]) \div Pow2(16 - prefix) = (n[1] * 256 + n[2]) \div Pow2(16 - prefix)
  ELSE /\ a[1] * 256 + a[2] = n[1] * 256 + n[2]
       /\ (a[3] * 256 + a[4]) \div Pow2(32 - prefix) = (n[3] * 256 + n[4]) \div Pow2(32 - prefix)

\* C11: for every address and every CIDR with prefix 0, 8, 12, 16 or 32,
\* isIpv4InCidr is true exactly when the address and the network agree on
\* their top prefix bits as unsigned 32-bit values.
C11_CidrAgreesWithMask ==
  nOutput # <<>> =>
    nOutput.member = TopBitsEqual(nInput.ip, nInput.network, nInput.prefix)

\* the adapter has followed a redirect and awaits the answer of the next hop
FollowedRedirect == caller = "adapter" /\ pc = "http" /\ obs.transport >= 2

\* C12 as stated: after a followed 303 the request of the next hop uses GET,
\* after a followed 307 it uses the method of the original request.
C12_OriginalMethod ==
  FollowedRedirect =>
    /\ obs.lastResponse.status = 303 => obs.lastRequest.method = "GET"
    /\ obs.lastResponse.status = 307 => obs.lastRequest.method = config.method

\* C12: after a followed 303 the request of the next hop uses GET whatever
\* the original method was; after a followed 307 it uses the method of the
\* request that received the 307, which is the original method unless an
\* earlier 303 of the chain changed it to GET.
C12_MethodAcrossRedirect ==
  FollowedRedirect =>
    /\ obs.lastResponse.status = 303 => obs.lastRequest.method = "GET"
    /\ obs.lastResponse.status = 307 => obs.lastRequest.method = obs.priorRequest.method
    /\ (obs.lastResponse.status = 307 /\ obs.redirects = 1)
         => obs.lastRequest.method = config.method

\* C12 witness: a POST redirected with 303 and then with 307 goes on as GET
C12_Witness ==
  /\ FollowedRedirect
  /\ config.method = "POST"
  /\ obs.redirects = 2
  /\ obs.lastResponse.status = 307
  /\ obs.priorRequest.method = "GET"
  /\ obs.lastRequest.method = "GET"

\* the hostname of the URL of the last validation, Failure when the URL
\* does not parse
ValidatedHostname ==
  LET parsed == ParseUrl(obs.lastValidation.url)
  IN IF obs.validate > 0 /\ parsed.ok THEN parsed.hostname ELSE Failure

\* C16: when allowedHosts has no "*", a URL whose hostname is not a member
\* of allowedHosts is rejected with the host-not-allowed error and without
\* any DNS lookup; when allowedHosts has "*", no URL is rejected with that
\* error.
C16_AllowlistBeforeLookup ==
  ValidatedHostname # Failure =>
    /\ (<<"*">> \notin rules.allowedHosts /\ ValidatedHostname \notin rules.allowedHosts)
         => /\ obs.callLookups = 0
            /\ obs.lastValidation.done
            /\ ~obs.lastValidation.accepted
            /\ obs.lastValidation.error = HostNotAllowedError(ValidatedHostname)
    /\ <<"*">> \in rules.allowedHosts
         => obs.lastValidation.error.text # HostNotAllowedError(<<>>).text

\* C16 witness: under the allowlist {a.com, 127.0.0.1} the URL http://8.8.8.8/
\* is rejected before any lookup and any request
C16_Witness ==
  /\ rules = allowlistRulesConfig
  /\ Rejected
  /\ obs.lastValidation.error = HostNotAllowedError(<<"8", ".", "8", ".", "8", ".", "8">>)
  /\ obs.lookups = 0
  /\ obs.transport = 0

\* the message of the earliest failing step of the last validation in the
\* order parse, scheme check, allowlist check, resolve, classify; "" when no
\* step fails
EarliestFailure(parsed) ==
  IF ~parsed.ok THEN InvalidUrlError(NotAUrl).text
  ELSE IF parsed.protocol \notin rules.allowedProtocols THEN "Invalid scheme"
  ELSE IF <<"*">> \notin rules.allowedHosts /\ parsed.hostname \notin rules.allowedHosts
       THEN HostNotAllowedError(<<>>).text
  ELSE IF obs.lastValidation.lookups = 1 /\ obs.lastAnswer = Failure
       THEN DnsFailedError(<<>>).text
  ELSE IF isPrivateIp(obs.lastValidation.address) THEN PrivateIpError(Null, <<>>).text
  ELSE ""

\* C17: a validation ends accepted or with one ForbiddenException whose
\* reason is that of the earliest failing step in the order parse, scheme
\* check, allowlist check, resolve, classify, and that rejection is what the
\* caller gets.
C17_EarliestFailingStep ==
  obs.lastValidation.done =>
    /\ obs.lastValidation.error.text = EarliestFailure(ParseUrl(obs.lastValidation.url))
    /\ obs.lastValidation.accepted = (obs.lastValidation.error = NoError)
    /\ ~obs.lastValidation.accepted =>
          /\ obs.lastValidation.error.type = "ForbiddenException"
          /\ pc = "thrown"
          /\ outcome = Threw(obs.lastValidation.error)

\* the caller's predicate accepts the status, or there is no predicate
PredicateAccepts(validateStatus, status) ==
  \/ validateStatus \in {"none", "any"}
  \/ validateStatus = "lt400" /\ status < 400
  \/ validateStatus = "2xx" /\ status >= 200 /\ status < 300

\* the fetch has ended on a response that is no redirect
EndedOnFinalResponse ==
  /\ FetchWithUrl
  /\ pc \in {"returned", "thrown"}
  /\ obs.responses > 0
  /\ ~IsRedirect(obs.lastResponse)

\* C19: the caller's status predicate is applied to the final non-redirect
\* response only: when it rejects that status the fetch fails with an error
\* carrying the response and the caller's config, otherwise the response is
\* returned unchanged; a redirect that is followed is never given to it.
C19_PredicateOnFinalResponse ==
  /\ EndedOnFinalResponse =>
        IF PredicateAccepts(config.validateStatus, obs.lastResponse.status)
        THEN pc = "returned" /\ outcome = Returned(obs.lastResponse)
        ELSE /\ pc = "thrown"
             /\ outcome.error = StatusError(obs.lastResponse.status)
             /\ outcome.response = obs.lastResponse
             /\ outcome.config = config
  /\ (FetchWithUrl /\ outcome.error.text = StatusError(0).text) => EndedOnFinalResponse
  /\ FollowedRedirect => outcome = Pending /\ IsRedirect(obs.lastResponse)

\* C19 witness: a predicate that accepts 2xx only lets a 302 be followed and
\* fails the fetch on the 404 of the second hop
C19_Witness ==
  /\ EndedOnFinalResponse
  /\ config.validateStatus = "2xx"
  /\ obs.redirects = 1
  /\ obs.transport = 2
  /\ outcome.error = StatusError(404)
  /\ outcome.response.status = 404
  /\ outcome.config = config

\* C18: a fetch with a timeout always ends: whenever a DNS lookup or an
\* HTTP transaction of the fetch is pending, the fetch eventually returns or
\* fails, also when the lookup or the transaction never answers.
C18_TimedFetchEnds ==
  (caller = "adapter" /\ pc \in {"lookup", "http", "rawhttp"}) ~> (pc \in {"returned", "thrown"})

\* C13: fetchMany completes only after every member fetch has finished and
\* never fails as a whole: it returns one result per input URL, in input
\* order, each the result of the member started for that URL; a member that
\* failed has a non-null error and no status, a member that succeeded has a
\* null error, whatever its siblings did.
C13_OneResultPerUrl ==
  /\ batch.pc \in {"idle", "running", "returned"}
  /\ batch.pc = "returned" =>
       /\ Len(batch.results) = Len(batch.urls)
       /\ \A i \in DOMAIN batch.urls :
            /\ members[i].pc = "done"
            /\ batch.results[i].settled
            /\ batch.results[i].url = batch.urls[i]
            /\ batch.results[i] = members[i].result
            /\ batch.results[i].error.isNull <=> batch.results[i].statusCode # 0
            /\ members[i].trace[Len(members[i].trace)].kind \in {"start", "dns", "error"}
                 => ~batch.results[i].error.isNull

\* fetchMany has returned for two urls: the first member was rejected by the
\* policy before any request, the second followed a redirect and got a 200
C13_Witness ==
  /\ batch.pc = "returned"
  /\ Len(batch.urls) = 2
  /\ batch.results[1].error = Message(PrivateIpError(LoopbackV4, LoopbackV4))
  /\ batch.results[2].statusCode = 200
  /\ batch.results[2].error.isNull
  /\ members[2].f.redirectCount = 1

\* member m stepped to n on the last answer n was given, and on nothing else
OwnStep(m, n) ==
  /\ n.trace # <<>>
  /\ n = Answered(m, n.trace[Len(n.trace)])

\* C20: the redirect hop count, the current URL and config, and the outcome
\* of a fetch are its own: under every interleaving of concurrent fetches,
\* every step leaves each member as it was or takes it to the state that
\* follows from its own state and the answer it was given alone, and every
\* member starts from the state of a fresh call for its URL.
C20_OwnStateOnly ==
  [][/\ batch.pc = "idle" =>
          \A i \in DOMAIN members' : members'[i] = NewMember(batch'.urls[i])
     /\ batch.pc # "idle" =>
          \A i \in DOMAIN members :
            members'[i] = members[i] \/ OwnStep(members[i], members'[i])]_vars

\* two fetches are in flight at once, one redirect into the first and two
\* into the second
C20_Witness ==
  /\ batch.pc = "running"
  /\ Len(members) = 2
  /\ members[1].pc = "http" /\ members[1].f.redirectCount = 1
  /\ members[2].pc = "http" /\ members[2].f.redirectCount = 2

\* the positions of the strings of urls
Strings(urls) == {j \in DOMAIN urls : IsString(urls[j])}

\* the position of the j-th string of urls
StringAt(urls, j) ==
  CHOOSE h \in Strings(urls) : Cardinality({g \in Strings(urls) : g < h}) = j - 1

\* C14: the guard validates the string URLs of a request one after the
\* other in their order; when one fails the request is refused with that
\* URL's ForbiddenException and status 403 and nothing after it is
\* validated; a refused request is never fetched and never stored, and a
\* request is fetched only after every string URL of it has passed.
C14_RejectedBeforeFetch ==
  \A i \in DOMAIN calls :
    LET c == calls[i]
        n == Len(c.checked)
    IN /\ n <= Cardinality(Strings(c.urls))
       /\ \A j \in 1..n :
            /\ c.checked[j].url = c.urls[StringAt(c.urls, j)]
            /\ c.checked[j].ok <=> ~(j = n /\ c.status = 403)
       /\ (c.status = 403 /\ c.hasUrls) =>
            /\ c.pc = "rejected"
            /\ n > 0
            /\ c.error.type = "ForbiddenException"
            /\ c.error \in {InvalidUrlError(c.checked[n].url),
                             PrivateIpError(c.error.address, c.error.host),
                             DnsFailedError(c.error.host),
                             HostNotAllowedError(c.error.host)}
            /\ c.error.host # <<>> => c.error.host = ParseUrl(c.checked[n].url).hostname
       /\ c.pc = "rejected" =>
            /\ ~c.fetched
            /\ c.id = NoId
            /\ \A x \in DOMAIN store :
                 \E j \in DOMAIN calls : j # i /\ calls[j].fetched /\ calls[j].id = x
       /\ c.fetched =>
            /\ n = Cardinality(Strings(c.urls))
            /\ \A j \in 1..n : c.checked[j].ok

\* a request whose first URL passed and whose second URL, a loopback literal,
\* was refused, while another request was created and stored
C14_Witness ==
  \E i \in DOMAIN calls :
    /\ calls[i].pc = "rejected"
    /\ calls[i].urls = <<Url("http:", HostA, "/"), Url("http:", LoopbackV4, "/")>>
    /\ Len(calls[i].checked) = 2
    /\ calls[i].error = PrivateIpError(LoopbackV4, LoopbackV4)
    /\ calls[i].status = 403
    /\ store # <<>>

\* C15: two create calls return different ids, and getOne of a returned id
\* yields the record with the urls and results of the call it was returned to.
C15_StoredIndependently ==
  \A i \in DOMAIN calls : \A j \in DOMAIN calls :
    /\ (i # j /\ calls[i].id # NoId /\ calls[j].id # NoId) => calls[i].id # calls[j].id
    /\ calls[i].pc = "created" =>
         /\ calls[i].id \in DOMAIN store
         /\ store[calls[i].id].urls = calls[i].urls
         /\ store[calls[i].id].results = calls[i].results

\* C21: no step of a validation, a guard check or a fetch changes the
\* policy configuration, and no step of a fetch changes the request config
\* the adapter was called with.
C21_ConfigurationUntouched ==
  [][/\ rules' = rules
     /\ caller = "adapter" => config' = config]_vars

\* a fetch of a POST followed a 303: the request in flight has another URL
\* and another method than the caller's config, which is as it was
C21_Witness ==
  /\ FollowedRedirect
  /\ config = Config(Url("http:", HostA, "/"), NoUrl, "POST", 1, "lt400")
  /\ obs.lastRequest.method = "GET"
  /\ obs.lastRequest.url # config.url
  /\ rules = securityRulesConfig

\* the address parsed to eight pieces lies in ::1/128, fe80::/10 or fc00::/7
InIpv6Entries(parsed) ==
  /\ parsed.ok
  /\ \/ parsed.pieces = <<0, 0, 0, 0, 0, 0, 0, 1>>
     \/ parsed.pieces[1] \div 64 = 1018
     \/ parsed.pieces[1] \div 512 = 126

\* C22: under the default denylist an IPv6 address that a validation
\* classified is rejected exactly when it lies in one of the IPv6 entries
\* ::1/128, fe80::/10 and fc00::/7; the IPv4 entries play no part.
C22_SameFamilyOnly ==
  (/\ rules = securityRulesConfig
   /\ obs.lastValidation.done
   /\ obs.lastValidation.address # Null
   /\ isIPv6(obs.lastValidation.address))
    => (obs.lastValidation.accepted <=> ~InIpv6Entries(ParseIPv6(obs.lastValidation.address)))

\* a segment of decimal digits
DecimalSegment(seg) == Len(seg) > 0 /\ AllDigits(seg)

\* the text has a wrong number of dotted segments, a segment above 255, or
\* content that is no number: a segment that is empty or has another
\* character than a digit, or, without a dot, text that is neither decimal
\* digits nor 0x followed by hexadecimal digits
InvalidText(text, segs) ==
  IF Includes(text, ".")
  THEN \/ Len(segs) # 4
       \/ \E i \in 1..Len(segs) : ~DecimalSegment(segs[i]) \/ SmallOfDigits(segs[i], 10, 0) > 255
  ELSE /\ ~DecimalSegment(text)
       /\ ~(StartsWith(text, <<"0", "x">>) /\ Len(text) > 2
            /\ DigitPrefixLen(SubSeq(text, 3, Len(text)), 16) = Len(text) - 2)

\* C23: normalizeIPv4 returns null for every text with a wrong number of
\* dotted segments, a segment outside 0..255 or non-numeric content.
C23_InvalidGivesNull ==
  (nOutput # <<>> /\ InvalidText(nInput, Split(nInput, "."))) => nOutput.normalized = Null

\* four segments of decimal digits, each at most 255
FourDecimalSegments(segs) ==
  /\ Len(segs) = 4
  /\ \A i \in 1..4 : DecimalSegment(segs[i]) /\ SmallOfDigits(segs[i], 10, 0) <= 255

\* the segments read as decimal numbers and joined again
DecimalReading(segs) ==
  Join([i \in 1..Len(segs) |-> NatToStr(SmallOfDigits(segs[i], 10, 0))], ".")

\* C24: for a text of four decimal segments normalizeIPv4 gives the
\* segments read as decimal numbers, leading zeros stripped, also when the
\* text begins with 0.
C24_DottedReadAsDecimal ==
  (nOutput # <<>> /\ FourDecimalSegments(Split(nInput, "."))) =>
    nOutput.normalized = DecimalReading(Split(nInput, "."))

\* C25: isIPv6InCidr is false whenever the address or the network of the
\* CIDR is no well-formed IPv6 address, for every prefix length and network.
C25_MalformedGivesFalse ==
  (nOutput # <<>> /\ (nInput.ip \in Cidr6Malformed \/ nInput.network \in Cidr6Malformed))
    => ~nOutput.member

\* the first p bits of the addresses a and b, each eight 16-bit pieces, are equal
FirstBitsEqual(a, b, p) ==
  \A i \in 1..8 :
    LET k == IF p >= 16 * i THEN 16 ELSE IF p <= 16 * (i - 1) THEN 0 ELSE p - 16 * (i - 1)
    IN a[i] \div Pow2(16 - k) = b[i] \div Pow2(16 - k)

\* addresses a and b, parsed, agree in their first p bits
ParsedAgree(a, b, p) == a.ok /\ b.ok /\ FirstBitsEqual(a.pieces, b.pieces, p)

\* C28: for well-formed addresses and a prefix length p in 0..128
\* isIPv6InCidr(ip, net/p) is true exactly when the first p bits of the two
\* addresses, expanded to eight 16-bit groups, are equal.
C28_FirstBitsDecide ==
  (nOutput # <<>> /\ nInput.ip \in Cidr6Addresses /\ nInput.network \in Cidr6Networks)
    => (nOutput.member <=> ParsedAgree(ParseIPv6(nInput.ip), ParseIPv6(nInput.network),
                                       nInput.prefix))

\* febf::1 was found in fe80::/10: the two differ from the eleventh bit on
C28_Witness ==
  /\ nOutput # <<>>
  /\ nInput = [ip |-> <<"f", "e", "b", "f", ":", ":", "1">>, network |-> <<"f", "e", "8", "0", ":", ":">>, prefix |-> 10]
  /\ nOutput.member

\* the fetch has failed with the max-redirects error
HopLimitExceeded ==
  /\ caller = "adapter"
  /\ pc = "thrown"
  /\ outcome.error = MaxRedirectsError(HopLimit)

\* C26: the hop limit is checked before the redirect target is resolved and
\* validated: a fetch never validates more than maxRedirects + 1 URLs, and
\* when it fails with the max-redirects error the redirect response that
\* exceeded the limit has led to no validation and no DNS lookup: the last
\* validation is the accepted one of the request that response answered.
C26_LimitBeforeValidation ==
  /\ FetchWithUrl => obs.validate <= HopLimit + 1
  /\ HopLimitExceeded =>
       /\ obs.redirects = HopLimit + 1
       /\ obs.validate = obs.redirects
       /\ obs.validateOk = obs.validate
       /\ obs.lookups <= obs.validate
       /\ obs.lastValidation.accepted
       /\ obs.lastValidation.url = obs.lastRequest.url
       /\ IsRedirect(obs.lastResponse)

\* the second redirect of a fetch with limit 1 points to the metadata
\* address: the fetch fails on the limit after two validations and two
\* lookups, none of them for that address
C26_Witness ==
  /\ HopLimitExceeded
  /\ HopLimit = 1
  /\ obs.lastResponse.location = Url("http:", MetadataV4, "/")
  /\ obs.validate = 2
  /\ obs.lookups = 2
  /\ obs.lastValidation.url = Url("http:", HostA, "/x")

\* C27: once a fetch has followed a 303, every later request of it uses GET
\* whatever redirect codes follow, and a request issued for a 301 or 302
\* has the method of the request that received the redirect.
C27_GetAfter303 ==
  FollowedRedirect =>
    /\ obs.after303 => obs.lastRequest.method = "GET"
    /\ obs.lastResponse.status \in {301, 302} =>
         obs.lastRequest.method = obs.priorRequest.method

\* a POST was redirected by a 303 and then by a 308: the third request is a
\* GET
C27_Witness ==
  /\ FollowedRedirect
  /\ config.method = "POST"
  /\ obs.after303
  /\ obs.redirects = 2
  /\ obs.lastResponse.status = 308
  /\ obs.lastRequest.method = "GET"

\* the response has one of the five redirect statuses and a Location header
Followable(response) == response.status \in {301, 302, 303, 307, 308} /\ response.hasLocation

\* the last response of the fetch is not one to follow
GotOtherResponse == FetchWithUrl /\ obs.responses > 0 /\ ~Followable(obs.lastResponse)

\* C29 as stated: a fetch goes on after a response only when the response has
\* a redirect status and a Location header; every other response ends the
\* fetch and is returned, after exactly the transport calls made so far.
C29_OtherResponseReturned ==
  /\ (FetchWithUrl /\ obs.responses > 0 /\ pc \in {"lookup", "http"})
       => Followable(obs.lastResponse)
  /\ GotOtherResponse =>
       /\ pc = "returned"
       /\ outcome = Returned(obs.lastResponse)
       /\ obs.transport = obs.responses

\* C29, amended: a fetch goes on after a response only when the response has
\* a redirect status and a Location header; every other response ends the
\* fetch as its final response after exactly the transport calls made so
\* far: it is returned when the caller's validateStatus is absent or accepts
\* its status, and otherwise the fetch fails with the status error that
\* carries it.
C29_OtherResponseEndsFetch ==
  /\ (FetchWithUrl /\ obs.responses > 0 /\ pc \in {"lookup", "http"})
       => Followable(obs.lastResponse)
  /\ GotOtherResponse =>
       /\ obs.transport = obs.responses
       /\ outcome.response = obs.lastResponse
       /\ IF PredicateAccepts(config.validateStatus, obs.lastResponse.status)
          THEN pc = "returned" /\ outcome.kind = "response"
          ELSE pc = "thrown" /\ outcome.kind = "error"

\* after one followed redirect the second response has status 303 and no
\* Location header: it is returned after two transport calls
C29_Witness ==
  /\ GotOtherResponse
  /\ obs.lastResponse = Response(303, NotAUrl)
  /\ obs.redirects = 1
  /\ obs.transport = 2
  /\ pc = "returned"
  /\ outcome.response.status = 303

\* the request in flight, the last validation and currentUrl are all for the
\* resolved URL
HopIsFor(resolved) ==
  /\ resolved.ok
  /\ obs.lastValidation.url = resolved.href
  /\ obs.lastRequest.url = resolved.href
  /\ fetch.currentUrl = resolved.href

\* the validation that awaits its lookup is for the resolved URL
LookupIsFor(resolved) == resolved.ok /\ validating.url = resolved.href

\* the Location header resolved against the URL of the request req
LocationAgainst(location, req) ==
  Against(location, ParseUrl(IF location.scheme # "" THEN location ELSE req.url))

\* C30: at every hop the Location header is resolved against the URL of the
\* request that was answered with it, and the resolved absolute URL is the
\* URL that is validated and the URL of the next request.
C30_ResolvedAgainstCurrent ==
  /\ FollowedRedirect => HopIsFor(LocationAgainst(obs.lastResponse.location, obs.priorRequest))
  /\ (FetchWithUrl /\ pc = "lookup" /\ validating.status # 0)
       => LookupIsFor(LocationAgainst(obs.lastResponse.location, obs.lastRequest))

\* a fetch of http://a.com/ was redirected to http://8.8.8.8/ and from there
\* to /a: the third request is for http://8.8.8.8/a
C30_Witness ==
  /\ FollowedRedirect
  /\ config.url = Url("http:", HostA, "/")
  /\ obs.redirects = 2
  /\ obs.priorRequest.url = Url("http:", <<"8", ".", "8", ".", "8", ".", "8">>, "/")
  /\ obs.lastResponse.location = Relative("/a")
  /\ obs.lastRequest.url = Url("http:", <<"8", ".", "8", ".", "8", ".", "8">>, "/a")
  /\ obs.lastValidation.url = Url("http:", <<"8", ".", "8", ".", "8", ".", "8">>, "/a")

\* C31: the validation of redirect targets does not depend on
\* validateRedirectChain: with the option true and with the option false
\* alike, every request a fetch issues after a redirect is for the URL that
\* a validation made for that redirect has accepted, one validation per
\* followed redirect, and a redirect target that is rejected is not
\* requested.
C31_ValidatedWhateverTheOption ==
  \A option \in BOOLEAN :
    (rules.validateRedirectChain = option /\ FetchWithUrl) =>
      /\ FollowedRedirect =>
           /\ obs.lastValidation.done
           /\ obs.lastValidation.accepted
           /\ obs.lastValidation.url = obs.lastRequest.url
           /\ obs.validate = obs.redirects + 1
           /\ obs.validateOk = obs.validate
      /\ (pc = "thrown" /\ obs.redirects > 0 /\ Rejected) =>
           /\ obs.validateOk = obs.validate - 1
           /\ obs.transport = obs.validateOk

\* with validateRedirectChain off a fetch was redirected to http://a.com/x:
\* that URL was validated before it was requested
C31_Witness ==
  /\ ~rules.validateRedirectChain
  /\ FollowedRedirect
  /\ obs.validate = 2
  /\ obs.lastValidation.accepted
  /\ obs.lastValidation.url = Url("http:", HostA, "/x")
  /\ obs.lastRequest.url = Url("http:", HostA, "/x")

\* canActivate has returned or thrown
GuardDone(c) == c.pc \in {"rejected", "fetching", "created"}

\* every string of listOfUrls was validated and has passed
AllStringsPassed(c) ==
  /\ Len(c.checked) = Cardinality(Strings(c.urls))
  /\ \A j \in DOMAIN c.checked : c.checked[j].ok

\* canActivate has thrown 'No URLs provided' and has validated nothing
RefusedUnvalidated(c) ==
  /\ c.pc = "rejected"
  /\ c.status = 403
  /\ c.error = NoUrlsError
  /\ c.checked = <<>>

\* what canActivate does once it is past the check of urls: a single value
\* is a list of one, the strings are validated in order and what is no
\* string is passed over, a refusal is the one of the last validation, and
\* it returns true exactly when every string has passed
ValidatesStrings(c) ==
  /\ c.body.kind = "scalar" => c.urls = <<c.body.value>>
  /\ c.body.kind = "array" => c.urls = c.body.items
  /\ Len(c.checked) <= Cardinality(Strings(c.urls))
  /\ \A j \in DOMAIN c.checked : c.checked[j].url = c.urls[StringAt(c.urls, j)]
  /\ c.status = 403 => /\ c.checked # <<>>
                       /\ ~c.checked[Len(c.checked)].ok
                       /\ c.error # NoUrlsError
  /\ GuardDone(c) => (c.status # 403 <=> AllStringsPassed(c))

\* C32 as stated: canActivate throws 'No URLs provided' without validating
\* anything when the body or its urls field is missing or null; for every
\* other body it takes a single value as a list of one, passes over what
\* is no string and returns true exactly when every string passes
\* validateUrlOrThrow.
C32_MissingOrNullRefused ==
  \A i \in DOMAIN calls :
    IF calls[i].body.kind \in {"nobody", "undefined", "null"}
    THEN RefusedUnvalidated(calls[i])
    ELSE ValidatesStrings(calls[i])

\* urls is undefined, null, '' or 0
Falsy(body) ==
  \/ body.kind \in {"nobody", "undefined", "null"}
  \/ body = ScalarBody(EmptyString)
  \/ body = ScalarBody(Zero)

\* C32, amended: canActivate throws 'No URLs provided' without validating
\* anything when the body is missing or null or its urls field is falsy
\* (missing, null, the empty string, 0); for every other body it takes a
\* single value as a list of one, passes over what is no string and returns
\* true exactly when every string passes validateUrlOrThrow, so that an
\* empty array and an array without a string return true.
C32_FalsyUrlsRefused ==
  \A i \in DOMAIN calls :
    IF Falsy(calls[i].body)
    THEN RefusedUnvalidated(calls[i])
    ELSE ValidatesStrings(calls[i])

\* one request with urls: '' was refused unvalidated, and one with the
\* single string http://a.com/ has passed the guard after one validation
C32_Witness ==
  \E i \in DOMAIN calls : \E j \in DOMAIN calls :
    /\ calls[i].body = ScalarBody(EmptyString)
    /\ RefusedUnvalidated(calls[i])
    /\ calls[j].body = ScalarBody(Url("http:", HostA, "/"))
    /\ calls[j].checked = <<[url |-> Url("http:", HostA, "/"), ok |-> TRUE]>>
    /\ calls[j].status = 400

\* the record of the create call c: what it was called with, what fetchMany
\* gave it and what it returned
RecordOf(c) == [id |-> c.id, createdAt |-> c.createdAt, urls |-> c.urls, results |-> c.results]

\* the getOne call g gave the record of every create call that had returned
\* its id, and the exception when there was none
GaveTheRecord(g) ==
  /\ \A i \in g.returnedTo :
       /\ g.found
       /\ g.record = RecordOf(calls[i])
       /\ Len(g.record.results) = Len(calls[i].urls)
  /\ g.returnedTo = {} =>
       /\ ~g.found
       /\ g.error.type = "NotFoundException"
       /\ g.error.text = "Request not ${id} found"
       /\ g.error.n = g.id[2]

\* C33: once create(urls) has returned an id, getOne(id) returns the record
\* {id, createdAt, urls, results} of that call, with one result per URL, and
\* every getOne(id) returns the same record; getOne of an id that no create
\* call has returned throws NotFoundException 'Request not <id> found'; and
\* getOne leaves the store as it is.
C33_GetOneGivesTheRecord ==
  /\ [](\A k \in DOMAIN gets :
          /\ GaveTheRecord(gets[k])
          /\ \A h \in DOMAIN gets :
               (gets[h].id = gets[k].id /\ gets[h].returnedTo # {} /\ gets[k].returnedTo # {})
                 => gets[h].record = gets[k].record)
  /\ [][gets' # gets => store' = store]_vars

\* the success shape of a UrlFetchResult
SuccessShape(r) ==
  /\ r.error.isNull
  /\ r.statusCode # 0
  /\ r.finalUrl # NullUrl

\* the failure shape of a UrlFetchResult
FailureShape(r) ==
  /\ ~r.error.isNull
  /\ r.error.message # NoError
  /\ r.error.message.text # ""
  /\ r.finalUrl = NullUrl
  /\ r.statusCode = 0
  /\ r.contentType = Null
  /\ r.content = Null

\* the last answer the call was given is a response that is not followed
EndedOnResponse(m) ==
  /\ m.trace # <<>>
  /\ m.trace[Len(m.trace)].kind = "http"
  /\ ~Followable(m.trace[Len(m.trace)].response)

\* C34: a fetchOne call never throws: it stands at an await or has returned
\* a result; every result is of the success shape (error null, statusCode
\* and finalUrl not null) or of the failure shape (an error message,
\* finalUrl, statusCode, contentType and content null), never of both; its
\* url is the input URL; and a final response of any status, 404 as well,
\* gives a success with that status.
C34_TwoShapes ==
  \A i \in DOMAIN members :
    LET m == members[i]
    IN /\ m.pc \in {"start", "lookup", "http", "done"}
       /\ m.pc = "done" <=> m.result.settled
       /\ m.result.settled =>
            /\ m.result.url = m.url
            /\ m.url = batch.urls[i]
            /\ SuccessShape(m.result) \/ FailureShape(m.result)
            /\ ~(SuccessShape(m.result) /\ FailureShape(m.result))
            /\ EndedOnResponse(m) =>
                 /\ SuccessShape(m.result)
                 /\ m.result.statusCode = m.trace[Len(m.trace)].response.status

\* of two fetches one has returned a success with status 404 and no content
\* type, the other a failure with the message of the policy's rejection
C34_Witness ==
  /\ Len(members) = 2
  /\ members[1].result.settled
  /\ members[1].result.statusCode = 404
  /\ members[1].result.contentType = Null
  /\ SuccessShape(members[1].result)
  /\ members[2].result.settled
  /\ members[2].result.error = Message(PrivateIpError(LoopbackV4, LoopbackV4))
  /\ FailureShape(members[2].result)

\* C37: when a fetch succeeds, the finalUrl of its result is the URL of the
\* last request the adapter gave to the transport, so that after followed
\* redirects it is the URL of the last hop, and it is the input URL only
\* when no redirect was followed (or the last hop is the input URL again).
C37_FinalUrlIsLastHop ==
  \A i \in DOMAIN members :
    (members[i].result.settled /\ members[i].result.error.isNull) =>
      /\ members[i].result.finalUrl = members[i].f.currentConfig.url
      /\ members[i].result.finalUrl = members[i].url =>
           \/ members[i].f.redirectCount = 0
           \/ members[i].f.currentUrl = members[i].url

\* C35: when every DNS lookup and every transport call settles, every fetch
\* ends with a response or an error; the loop of a fetch makes at most
\* maxRedirects + 1 transport calls, and a fetch that gets more redirects
\* than its limit, a cycle of redirects as well, ends with the
\* max-redirects error.
C35_EveryFetchEnds ==
  /\ [](FetchWithUrl =>
          /\ obs.transport <= HopLimit + 1
          /\ obs.redirects > HopLimit => HopLimitExceeded)
  /\ (caller = "adapter" /\ pc \in {"lookup", "http", "rawhttp"})
       ~> (pc \in {"returned", "thrown"} /\ outcome.kind \in {"response", "error"})

\* a fetch of http://8.8.8.8/ with limit 2 was redirected to http://a.com/x,
\* from there back to http://8.8.8.8/, and from there to http://a.com/x
\* again: it has ended with the max-redirects error
C35_Witness ==
  /\ HopLimitExceeded
  /\ HopLimit = 2
  /\ config.url = Url("http:", <<"8", ".", "8", ".", "8", ".", "8">>, "/")
  /\ obs.lastRequest.url = Url("http:", <<"8", ".", "8", ".", "8", ".", "8">>, "/")
  /\ HostA \in obs.acceptedHosts
  /\ obs.validate = 3
  /\ obs.lastResponse.location = Url("http:", HostA, "/x")
  /\ obs.transport = 3

\* C36: normalizeIPv4 is idempotent on its results: applied to a canonical
\* form it has returned, also to one whose first octet is 0, it returns
\* that form.
C36_IdempotentOnResults ==
  (nOutput # <<>> /\ "again" \in DOMAIN nOutput) => nOutput.again = nOutput.normalized

\* the octets a are at most the octets b, in the order of addresses
OctetsLeq(a, b) ==
  \/ a[1] * 256 + a[2] < b[1] * 256 + b[2]
  \/ a[1] * 256 + a[2] = b[1] * 256 + b[2] /\ a[3] * 256 + a[4] <= b[3] * 256 + b[4]

\* the address lies within the inclusive bounds of one of the five ranges
InLegacyBounds(o) ==
  \E r \in {<<<<10, 0, 0, 0>>, <<10, 255, 255, 255>>>>,
             <<<<172, 16, 0, 0>>, <<172, 31, 255, 255>>>>,
             <<<<192, 168, 0, 0>>, <<192, 168, 255, 255>>>>,
             <<<<127, 0, 0, 0>>, <<127, 255, 255, 255>>>>,
             <<<<169, 254, 0, 0>>, <<169, 254, 255, 255>>>>} :
    OctetsLeq(r[1], o) /\ OctetsLeq(o, r[2])

\* C38: for a family-4 answer of the lookup, ensurePublicHttpUrl throws
\* 'Private IP address' exactly when the address lies within the inclusive
\* bounds of 10/8, 172.16/12, 192.168/16, 127/8 or 169.254/16, and returns
\* otherwise, also for addresses from 128.0.0.0 on, whose integer form is
\* negative.
C38_LegacyRangesExact ==
  (nOutput # <<>> /\ nInput.answer.family = 4 /\ nInput.url.scheme = "http:") =>
    /\ nOutput.error.text = LegacyPrivateIp(<<>>).text <=> InLegacyBounds(nInput.octets)
    /\ nOutput.error = IF InLegacyBounds(nInput.octets)
                       THEN LegacyPrivateIp(nInput.answer.address)
                       ELSE NoError

\* 172.31.255.255, whose integer form is negative, was rejected
C38_Witness ==
  /\ nOutput # <<>>
  /\ nInput.answer = LookupAnswer(<<"1", "7", "2", ".", "3", "1", ".", "2", "5", "5", ".", "2", "5", "5">>, 4)
  /\ ipv4ToInt(nInput.answer.address).value < 0
  /\ nOutput.error = LegacyPrivateIp(<<"1", "7", "2", ".", "3", "1", ".", "2", "5", "5", ".", "2", "5", "5">>)

====
